---- MODULE Spec2Model ----
(***************************************************************************)
(* Model of the agent runtime of src/agent.py (class BaseMCPAgent):        *)
(*   - the subprocess subagent supervisor (_task, _monitor_task,           *)
(*     _check_all_tasks_completed, _task_results), specification SpecTasks *)
(*   - tool forwarding between a subagent and its parent                   *)
(*     (_forward_tool_to_parent, _handle_subagent_tool_request),           *)
(*     specification SpecFwd                                               *)
(*   - token accounting and compaction (count_conversation_tokens,         *)
(*     should_compact, compact_conversation), specifications SpecCompact   *)
(*     and SpecThreshold                                                   *)
(*   - the interactive loop (interactive_chat), specification SpecChat     *)
(*                                                                         *)
(* A Python string is modelled by a record [text, len]: text identifies    *)
(* the characters, len is len(text).  Two strings are equal iff the        *)
(* records are equal.                                                      *)
(***************************************************************************)
EXTENDS Integers, Sequences, FiniteSets, TLC

(***************************************************************************)
(* Bounds of the model                                                     *)
(***************************************************************************)
MaxTasks == 3
MaxTicks == 1

(***************************************************************************)
(* Program constants                                                       *)
(***************************************************************************)
BatchWindow == 5

NoBatch == 0
NoTime == 0 - 1
NoFile == "no_file"
CorruptFile == "corrupt_file"
NoResult == "None"

Descriptions == {"investigate a"}
TickSteps == {1, 5, 6}
Prompts == {"look at a"}
FileResults == {"findings"}

VARIABLES
    \* ---- supervisor state (BaseMCPAgent.__init__, lines 491-495)
    running_tasks,      \* task id -> task_info record
    task_counter,
    current_batch_id,
    batch_counter,
    \* ---- environment of the supervisor
    now,                \* time.time(), whole seconds
    spawning,           \* the _task call suspended at create_subprocess_exec
    process,            \* task id -> "running" | "exited" (process.returncode)
    monitor_pc,         \* task id -> "polling" | "done" (the _monitor_task coroutine)
    stdout_summaries,   \* consolidated summaries printed so far, in order
    ticks,              \* number of times the clock has advanced
    \* ---- history of the supervisor, used to state properties only
    task_files,         \* task ids whose temp task file (line 1190) exists
    registered          \* task id -> batch id, description and start time it was registered with

VARIABLES
    \* ---- compaction: one call of compact_conversation / should_compact
    conv,               \* the messages argument
    summary_call,       \* outcome of the summarisation request (line 2512)
    compacted,          \* the list returned
    cpc,                \* "start" | "done"
    model_name,         \* _get_current_model_name()
    compact_flag        \* what should_compact returned

cvars == <<conv, summary_call, compacted, cpc, model_name, compact_flag>>

VARIABLES
    \* ---- interactive_chat (lines 2600-2755)
    chat_messages,      \* the conversation (messages, line 2602)
    ipc,                \* where the loop is: "input" | "awaiting" | "streaming" |
                        \* "ended" | "reload_host" (returned for a host reload)
    interrupted,        \* input_handler.interrupted
    current_task,       \* "none" | "pending"
    request,            \* the messages handed to generate_response (line 2673)
    stream,             \* chunks the streamed response has still to deliver
    full_response,      \* text displayed so far (line 2697)
    stream_interrupted, \* the local flag of lines 2704-2718
    tty,                \* terminal attributes: "cooked" | "raw"
    printed,            \* the last line printed about a request (lines 2668-2685)
    asked               \* history: what the last input line asked of the model:
                        \* "none" | "summary" | "completion"

ivars == <<chat_messages, ipc, interrupted, current_task, request, stream,
           full_response, stream_interrupted, tty, printed, asked>>

VARIABLES
    \* ---- tool forwarding
    is_subagent,        \* the parent's own flag (line 497)
    conn,               \* task id -> task_info["client_socket"]: "none" | "open" | "closed"
    comm_pc,            \* task id -> "accepting" | "receiving" | "done"
    to_parent,          \* task id -> request lines the child has sent, unread
    to_child,           \* task id -> response lines the parent has sent, unread
    child_pc,           \* task id -> "starting" | "idle" | "waiting" | "local"
    child_req,          \* task id -> the request the child waits on
    sock_timeout,       \* task id -> the child's socket has a timeout (line 2181)
    handlers,           \* the _handle_subagent_tool_request tasks alive
    next_request,       \* the next fresh request id
    \* ---- history of the forwarding, used to state properties only
    requests,           \* request id -> who asked for what
    dispatched,         \* request id -> how the parent's execution ended
    sent,               \* request id -> the responses sent for it, in order
    returned            \* request id -> what the forwarding call returned

fvars == <<is_subagent, conn, comm_pc, to_parent, to_child, child_pc, child_req,
           sock_timeout, handlers, next_request, requests, dispatched, sent, returned>>

VARIABLES
    \* ---- _execute_mcp_tool_with_keepalive (lines 2222-2264)
    ka_pc,              \* "loop" (line 2235) | "waiting" (line 2247) | "returned"
    ka_interval,        \* keepalive_interval
    ka_handler,         \* an input_handler was passed
    ka_flag,            \* input_handler.interrupted
    tool_state,         \* tool_task: "pending" | "done" | "cancelled"
    tool_left,          \* seconds of work the tool still has to do
    wait_left,          \* seconds until the wait_for of line 2247 times out
    ka_clock,           \* loop.time() - start_time
    keepalive_messages, \* the list of line 2230
    ka_result,          \* the first component of the returned tuple
    \* ---- history of the run, used to state properties only
    tool_duration,      \* the seconds of work the tool had at the start
    raised_pending      \* the flag was raised while the tool was pending

kvars == <<ka_pc, ka_interval, ka_handler, ka_flag, tool_state, tool_left,
           wait_left, ka_clock, keepalive_messages, ka_result,
           tool_duration, raised_pending>>

VARIABLES
    \* ---- the parent's event loop serving several subagents
    inbox,              \* task id -> messages received on its socket, not yet processed
    created,            \* handler tasks made by create_task (line 1419), not yet run
    suspended,          \* handler tasks suspended at an await of their tool
    blocking,           \* the handler inside a synchronous tool, holding the loop
    answered,           \* handler tasks that have sent their response
    display_messages,   \* task id -> task_info["display_messages"]
    sent_count          \* task id -> messages the child has sent

lvars == <<inbox, created, suspended, blocking, answered, display_messages,
           sent_count>>

VARIABLES
    \* ---- shutdown (lines 1872-1892), run by chat (lines 2929-2936)
    mcp_clients,        \* the server names in self.mcp_clients
    transports,         \* server name -> "open" | "closed" | "close_failed"
    monitors_alive,     \* the event loop of the program still runs its tasks
    shutdown_pc         \* "running" | "done"

svars == <<mcp_clients, transports, monitors_alive, shutdown_pc>>

VARIABLES
    \* ---- one call of the tool layer (lines 725-1118 and 2099-2154)
    d_key,              \* the tool key (or built-in name) called
    d_args,             \* "given" | "missing": the required argument
    d_env,              \* what the environment does to the call
    d_subagent,         \* self.is_subagent of the agent that is called
    d_socket,           \* self.comm_socket is set
    d_pc,               \* "called" | "returned"
    d_out,              \* what came back to the caller
    d_route             \* history: the branch of the dispatcher that ran

dvars == <<d_key, d_args, d_env, d_subagent, d_socket, d_pc, d_out, d_route>>

VARIABLES
    \* ---- the tool registry (lines 531-723 and 1815-1868)
    registry,           \* the keys of self.available_tools, as character tuples
    connected           \* the server names in self.mcp_clients

rvars == <<registry, connected>>

VARIABLES
    \* ---- replace_in_file (src/agent.py lines 897-926 and
    \* src/cli_agent/core/builtin_tool_executor.py lines 190-261)
    file_content,       \* the characters of the file, or NoSuchFile
    e_impl,             \* "agent" | "executor": which of the two is called
    e_old,              \* old_text
    e_new,              \* new_text
    e_pc,               \* "called" | "returned" | "returned again"
    e_out,              \* what the first call returned
    e_before,           \* history: the file before the call
    e_mid,              \* history: the file between the two calls
    e_again             \* what the second call returned

evars == <<file_content, e_impl, e_old, e_new, e_pc, e_out, e_before, e_mid,
           e_again>>

VARIABLES
    \* ---- write_file and read_file (src/agent.py lines 788-835 and
    \* src/cli_agent/core/builtin_tool_executor.py lines 54-130)
    disk,               \* the characters of the file at path, or NoSuchFile
    rw_impl,            \* "agent" | "executor": which pair of functions is called
    rw_content,         \* the content argument of write_file
    rw_offset,          \* the offset argument of read_file, or NoArg
    rw_limit,           \* the limit argument of read_file, or NoArg
    rw_env,             \* "ok" | "denied": whether the file can be opened for writing
    rw_pc,              \* "start" | "written" | "read"
    rw_written,         \* what write_file returned
    rw_out              \* what read_file returned

wvars == <<disk, rw_impl, rw_content, rw_offset, rw_limit, rw_env, rw_pc,
           rw_written, rw_out>>

VARIABLES
    \* ---- what the terminal shows (src/agent.py lines 1266-1283, 1421-1431
    \* and 2705-2739)
    screen,             \* the characters printed so far, each with its source
    p_stream,           \* the chunks of the main model's stream still to come
    p_stdout,           \* the reads of a child's stdout still to come
    p_messages,         \* the display_message texts of a child still to come
    p_pc                \* "streaming" | "prompt"

pvars == <<screen, p_stream, p_stdout, p_messages, p_pc>>

VARIABLES
    \* ---- the control socket of one child and the message buffer of its
    \* record (src/agent.py lines 1337-1459)
    ctl_inbox,          \* the lines the child has written and the parent not yet read
    ctl_sent,           \* how many lines the child has written
    ctl_pc,             \* "accepting" | "in recv" | "done"
    display_buf,        \* task_info["display_messages"] of the child's record
    ctl_payload         \* history: the payload of the result envelope processed last

mvars == <<ctl_inbox, ctl_sent, ctl_pc, display_buf, ctl_payload>>

VARIABLES
    \* ---- InterruptibleInput.get_input (src/agent.py lines 363-463)
    g_available,        \* self._available: prompt_toolkit could be imported
    g_allow,            \* the allow_escape_interrupt argument
    g_in_loop,          \* the call is made inside a running event loop
    g_prompt_error,     \* prompt_toolkit raises an error of its own
    g_key,              \* what the user does at the prompt
    g_flag_before,      \* history: self.interrupted when the call is made
    g_flag,             \* self.interrupted
    g_pc,               \* "called" | "returned"
    g_ret               \* what the call returns or raises

gvars == <<g_available, g_allow, g_in_loop, g_prompt_error, g_key,
           g_flag_before, g_flag, g_pc, g_ret>>

VARIABLES
    \* ---- the resources of one record, from _task (lines 1130-1247) to the
    \* end of _monitor_task (lines 1249-1335) and of
    \* _handle_subagent_communication (lines 1346-1410)
    u_pc,               \* the _task call: "start" | "spawning" | "returned"
    u_ret,              \* what _task returned: "none" | "started" | "error"
    u_registered,       \* the record is in running_tasks
    u_completed,        \* task_info["completed"]
    u_result,           \* task_info["result"]
    u_process,          \* the child: "none" | "running" | "exited"
    u_task_file,        \* the temp task file exists
    u_result_file,      \* the result file: "absent" | "valid" | "corrupt"
    u_listen,           \* comm_socket: "none" | "open" | "closed"
    u_client,           \* the accepted socket: "none" | "open" | "closed"
    u_connect,          \* the child's connection: "no" | "pending" | "accepted" |
                        \* "refused"
    u_monitor,          \* _monitor_task: "none" | "polling" | "done" | "failed"
    u_comm              \* the handler: "none" | "accepting" | "receiving" | "done"

uvars == <<u_pc, u_ret, u_registered, u_completed, u_result, u_process,
           u_task_file, u_result_file, u_listen, u_client, u_connect,
           u_monitor, u_comm>>

VARIABLES
    \* ---- one call of task_results (src/agent.py lines 1609-1680 and
    \* src/cli_agent/core/builtin_tool_executor.py lines 374-417)
    q_impl,             \* "agent" | "executor": which of the two is called
    q_tasks,            \* the live map: task id -> record
    q_include,          \* args["include_running"]: TRUE | FALSE | "absent"
    q_clear,            \* args["clear_after_retrieval"]: TRUE | FALSE | "absent"
    q_pc,               \* "called" | "returned"
    q_before,           \* history: the live map when the call was made
    q_listed            \* the task ids the returned text lists

qvars == <<q_impl, q_tasks, q_include, q_clear, q_pc, q_before, q_listed>>

tvars == <<running_tasks, task_counter, current_batch_id, batch_counter, now,
           spawning, process, monitor_pc, stdout_summaries,
           ticks, task_files, registered>>

not_tvars == <<cvars, ivars, fvars, kvars, lvars, svars, dvars, rvars, evars,
               wvars, pvars, mvars, gvars, uvars, qvars>>
not_cvars == <<tvars, ivars, fvars, kvars, lvars, svars, dvars, rvars, evars,
               wvars, pvars, mvars, gvars, uvars, qvars>>
not_ivars == <<tvars, fvars, kvars, lvars, svars, dvars, rvars, evars, wvars,
               pvars, mvars, gvars, uvars, qvars, conv, summary_call,
               compacted, cpc, compact_flag>>
not_fvars == <<tvars, cvars, ivars, kvars, lvars, svars, dvars, rvars, evars,
               wvars, pvars, mvars, gvars, uvars, qvars>>
not_kvars == <<tvars, cvars, ivars, fvars, lvars, svars, dvars, rvars, evars,
               wvars, pvars, mvars, gvars, uvars, qvars>>
not_lvars == <<tvars, cvars, ivars, fvars, kvars, svars, dvars, rvars, evars,
               wvars, pvars, mvars, gvars, uvars, qvars>>
not_svars == <<tvars, cvars, ivars, fvars, kvars, lvars, dvars, rvars, evars,
               wvars, pvars, mvars, gvars, uvars, qvars>>
not_dvars == <<tvars, cvars, ivars, fvars, kvars, lvars, svars, rvars, evars,
               wvars, pvars, mvars, gvars, uvars, qvars>>
not_rvars == <<tvars, cvars, ivars, fvars, kvars, lvars, svars, dvars, evars,
               wvars, pvars, mvars, gvars, uvars, qvars>>
not_evars == <<tvars, cvars, ivars, fvars, kvars, lvars, svars, dvars, rvars,
               wvars, pvars, mvars, gvars, uvars, qvars>>
not_wvars == <<tvars, cvars, ivars, fvars, kvars, lvars, svars, dvars, rvars,
               evars, pvars, mvars, gvars, uvars, qvars>>
not_pvars == <<tvars, cvars, ivars, fvars, kvars, lvars, svars, dvars, rvars,
               evars, wvars, mvars, gvars, uvars, qvars>>
not_mvars == <<tvars, cvars, ivars, fvars, kvars, lvars, svars, dvars, rvars,
               evars, wvars, pvars, gvars, uvars, qvars>>
not_gvars == <<tvars, cvars, ivars, fvars, kvars, lvars, svars, dvars, rvars,
               evars, wvars, pvars, mvars, uvars, qvars>>
not_uvars == <<tvars, cvars, ivars, fvars, kvars, lvars, svars, dvars, rvars,
               evars, wvars, pvars, mvars, gvars, qvars>>
not_qvars == <<tvars, cvars, ivars, fvars, kvars, lvars, svars, dvars, rvars,
               evars, wvars, pvars, mvars, gvars, uvars>>

vars == <<tvars, cvars, ivars, fvars, kvars, lvars, svars, dvars, rvars,
          evars, wvars, pvars, mvars, gvars, uvars, qvars>>

NoSpawn == [task_id |-> 0]

(***************************************************************************)
(* Helpers on finite sets of integers                                      *)
(***************************************************************************)
RECURSIVE SortedSeq(_)
SortedSeq(S) ==
    IF S = {} THEN <<>>
    ELSE LET m == CHOOSE x \in S : \A y \in S : x <= y
         IN <<m>> \o SortedSeq(S \ {m})

SetMax(S) == CHOOSE x \in S : \A y \in S : y <= x
SetMin(S) == CHOOSE x \in S : \A y \in S : x <= y

(***************************************************************************)
(* _task, lines 1119-1247.  The coroutine has one suspension point, the    *)
(* await of create_subprocess_exec (line 1206): TaskDecide is the code     *)
(* before it, TaskRegister the code after it.  The controller awaits each  *)
(* tool call, so at most one _task call is suspended at a time.            *)
(***************************************************************************)
NewestStart(rt) == SetMax({rt[t].start_time : t \in DOMAIN rt})

\* lines 1138-1140: the condition under which a new batch is opened
OpensNewBatch(cur, rt, current_time) ==
    \/ cur = NoBatch
    \/ DOMAIN rt = {}
    \/ current_time - NewestStart(rt) > BatchWindow

TaskDecide(description, prompt) ==
    /\ spawning = NoSpawn
    /\ description # ""
    /\ prompt # ""
    /\ task_counter < MaxTasks
    /\ task_counter' = task_counter + 1
    /\ IF OpensNewBatch(current_batch_id, running_tasks, now)
       THEN /\ batch_counter' = batch_counter + 1
            /\ current_batch_id' = batch_counter + 1
       ELSE UNCHANGED <<batch_counter, current_batch_id>>
    /\ task_files' = task_files \cup {task_counter + 1}
    /\ spawning' = [task_id |-> task_counter + 1, description |-> description,
                    current_time |-> now]
    /\ UNCHANGED <<running_tasks, now, process, monitor_pc,
                   stdout_summaries, ticks, registered, not_tvars>>

\* lines 1214-1226: the record stored for a new task
NewTaskInfo(description, current_time, batch_id) ==
    [description |-> description,
     start_time |-> current_time,
     completed |-> FALSE,
     result |-> NoResult,
     batch_id |-> batch_id,
     end_time |-> NoTime,
     comm_socket |-> "listening"]

TaskRegister ==
    /\ spawning # NoSpawn
    /\ LET id == spawning.task_id
       IN /\ running_tasks' =
                [t \in DOMAIN running_tasks \cup {id} |->
                    IF t = id
                    THEN NewTaskInfo(spawning.description, spawning.current_time,
                                     current_batch_id)
                    ELSE running_tasks[t]]
          /\ process' = [t \in DOMAIN process \cup {id} |->
                            IF t = id THEN "running" ELSE process[t]]
          /\ monitor_pc' = [t \in DOMAIN monitor_pc \cup {id} |->
                            IF t = id THEN "polling" ELSE monitor_pc[t]]
          /\ registered' = [t \in DOMAIN registered \cup {id} |->
                            IF t = id
                            THEN [batch_id |-> current_batch_id,
                                  description |-> spawning.description,
                                  start_time |-> spawning.current_time]
                            ELSE registered[t]]
    /\ spawning' = NoSpawn
    /\ UNCHANGED <<task_counter, current_batch_id, batch_counter, now,
                   stdout_summaries, ticks, task_files, not_tvars>>

(***************************************************************************)
(* The child process, execute_task_subprocess (lines 3008-3113): it ends   *)
(* either after writing its result file (lines 3096-3106) or without one   *)
(* (an exception, lines 3110-3113, or a kill).  Nothing but _monitor_task  *)
(* reads that file, so what the child left is drawn where it is read.      *)
(***************************************************************************)
ChildExit(t) ==
    /\ t \in DOMAIN process
    /\ process[t] = "running"
    /\ process' = [process EXCEPT ![t] = "exited"]
    /\ UNCHANGED <<running_tasks, task_counter, current_batch_id, batch_counter,
                   now, spawning, monitor_pc, stdout_summaries, ticks,
                   registered, task_files, not_tvars>>

(***************************************************************************)
(* _generate_consolidated_summary, lines 1718-1813                         *)
(***************************************************************************)
\* lines 1788-1804: the part of the report about one task; the result is
\* listed only when it is truthy (line 1798)
SummaryEntry(t, task_info) ==
    [task_id |-> t,
     description |-> task_info.description,
     runtime |-> task_info.end_time - task_info.start_time,
     result |-> IF task_info.result \notin {"", NoResult}
                THEN task_info.result ELSE "not listed"]

_generate_consolidated_summary(rt, batch_id) ==
    LET batch_tasks == {t \in DOMAIN rt :
                           rt[t].batch_id = batch_id /\ rt[t].completed}
        order == SortedSeq(batch_tasks)
    IN [batch_id |-> batch_id,
        completed_tasks |-> Cardinality(batch_tasks),
        total_runtime |-> SetMax({rt[t].end_time : t \in batch_tasks})
                          - SetMin({rt[t].start_time : t \in batch_tasks}),
        entries |-> [i \in 1..Len(order) |-> SummaryEntry(order[i], rt[order[i]])]]

(***************************************************************************)
(* _check_all_tasks_completed, lines 1682-1716, as a function of the live  *)
(* map and the current batch: the map afterwards and the summaries printed *)
(***************************************************************************)
\* lines 1697-1701
BatchIsReported(rt, batch_id, cur) ==
    LET batch_tasks == {t \in DOMAIN rt : rt[t].batch_id = batch_id}
        completed_in_batch == {t \in batch_tasks : rt[t].completed}
    IN /\ Cardinality(completed_in_batch) = Cardinality(batch_tasks)
       /\ Cardinality(completed_in_batch) > 1
       /\ batch_id = cur

_check_all_tasks_completed(rt, cur) ==
    LET batches == {rt[t].batch_id : t \in DOMAIN rt}
        reported == {b \in batches : BatchIsReported(rt, b, cur)}
        order == SortedSeq(reported)
        kept == {t \in DOMAIN rt : rt[t].batch_id \notin reported}
    IN [running_tasks |-> [t \in kept |-> rt[t]],
        printed |-> [i \in 1..Len(order) |->
                        _generate_consolidated_summary(rt, order[i])]]

(***************************************************************************)
(* _monitor_task, lines 1249-1335.  The polling loop (lines 1261-1286)     *)
(* ends when the child has exited; everything from line 1303 on runs       *)
(* without a suspension point.                                             *)
(***************************************************************************)
\* lines 1308-1320
CollectedResult(file) ==
    IF file = NoFile THEN "Result file not found"
    ELSE IF file = CorruptFile THEN "Error collecting result"
    ELSE file

\* the slip of storing the elapsed time where the time of the exit belongs
CompletedTaskInfo_elapsed(task_info, end_time, result) ==
    [task_info EXCEPT !.completed = TRUE,
                      !.end_time = end_time - task_info.start_time - 1,
                      !.result = result]

\* lines 1304-1305 and 1314-1320
CompletedTaskInfo(task_info, end_time, result) ==
    [task_info EXCEPT !.completed = TRUE, !.end_time = end_time, !.result = result]

MonitorTaskCompletes(t, file) ==
    /\ t \in DOMAIN monitor_pc
    /\ monitor_pc[t] = "polling"
    /\ process[t] = "exited"
    /\ t \in DOMAIN running_tasks
    /\ LET marked == [running_tasks EXCEPT
                         ![t] = CompletedTaskInfo(@, now, CollectedResult(file))]
           checked == _check_all_tasks_completed(marked, current_batch_id)
       IN /\ running_tasks' = checked.running_tasks
          /\ stdout_summaries' = stdout_summaries \o checked.printed
    /\ monitor_pc' = [monitor_pc EXCEPT ![t] = "done"]
    /\ task_files' = task_files \ {t}
    /\ UNCHANGED <<task_counter, current_batch_id, batch_counter, now, spawning,
                   process, ticks, registered, not_tvars>>

(***************************************************************************)
(* _task_results, lines 1609-1680: the live map after the call             *)
(***************************************************************************)
\* task_results clearing every record, running ones too
AfterTaskResults_all(rt, clear_after_retrieval) ==
    IF clear_after_retrieval THEN [t \in {} |-> rt[t]] ELSE rt

\* lines 1667-1671
AfterTaskResults(rt, clear_after_retrieval) ==
    LET completed_count == Cardinality({t \in DOMAIN rt : rt[t].completed})
    IN IF clear_after_retrieval /\ completed_count > 0
       THEN [t \in {u \in DOMAIN rt : ~rt[u].completed} |-> rt[t]]
       ELSE rt

TaskResults(include_running, clear_after_retrieval) ==
    /\ DOMAIN running_tasks # {}
    /\ running_tasks' = AfterTaskResults(running_tasks, clear_after_retrieval)
    /\ running_tasks' # running_tasks
    /\ UNCHANGED <<task_counter, current_batch_id, batch_counter, now, spawning,
                   process, monitor_pc, stdout_summaries,
                   ticks, registered, task_files, not_tvars>>

\* time.time() advances by d seconds
Tick(d) ==
    /\ ticks < MaxTicks
    /\ ticks' = ticks + 1
    /\ now' = now + d
    /\ UNCHANGED <<running_tasks, task_counter, current_batch_id, batch_counter,
                   spawning, process, monitor_pc, stdout_summaries,
                   registered, task_files, not_tvars>>

TasksInit ==
    /\ running_tasks = <<>>
    /\ task_counter = 0
    /\ current_batch_id = NoBatch
    /\ batch_counter = 0
    /\ now = 0
    /\ spawning = NoSpawn
    /\ process = <<>>
    /\ monitor_pc = <<>>
    /\ stdout_summaries = <<>>
    /\ registered = <<>>
    /\ task_files = {}
    /\ ticks = 0

TasksNext ==
    \/ \E d \in Descriptions \cup {""}, p \in Prompts : TaskDecide(d, p)
    \/ TaskRegister
    \/ \E t \in 1..MaxTasks : ChildExit(t)
    \/ \E t \in 1..MaxTasks, f \in FileResults \cup {NoFile, CorruptFile} :
          MonitorTaskCompletes(t, f)
    \/ \E ir \in BOOLEAN, c \in BOOLEAN : TaskResults(ir, c)
    \/ \E d \in TickSteps : Tick(d)


(***************************************************************************)
(* Properties of the supervisor                                            *)
(***************************************************************************)
BatchMembers(b) == {t \in DOMAIN registered : registered[t].batch_id = b}
SummariesOf(b) ==
    {i \in 1..Len(stdout_summaries) : stdout_summaries[i].batch_id = b}
AllFinished(b) == \A t \in BatchMembers(b) : monitor_pc[t] = "done"
ListedIn(s) == {s.entries[i].task_id : i \in 1..Len(s.entries)}

\* C1: the consolidated summary of a batch of two or more tasks is emitted
\* exactly once (never twice, and not zero times once all its tasks have
\* completed), and when it has been emitted no record it lists is left in
\* running_tasks.
C1_SummaryExactlyOnce ==
    \A b \in 1..batch_counter :
        Cardinality(BatchMembers(b)) >= 2 =>
            /\ Cardinality(SummariesOf(b)) <= 1
            /\ AllFinished(b) => Cardinality(SummariesOf(b)) = 1
            /\ \A i \in SummariesOf(b) :
                   ListedIn(stdout_summaries[i]) \cap DOMAIN running_tasks = {}

\* C2: once all k >= 2 children of a batch have exited and been marked
\* completed, some summary of the batch lists every one of the k tasks with
\* its description, and running_tasks holds none of the k records.
C2_AllTasksListed ==
    \A b \in 1..batch_counter :
        (Cardinality(BatchMembers(b)) >= 2 /\ AllFinished(b)) =>
            /\ \E i \in SummariesOf(b) :
                 LET s == stdout_summaries[i]
                 IN /\ ListedIn(s) = BatchMembers(b)
                    /\ s.completed_tasks = Cardinality(BatchMembers(b))
                    /\ \A j \in 1..Len(s.entries) :
                          s.entries[j].description =
                              registered[s.entries[j].task_id].description
            /\ BatchMembers(b) \cap DOMAIN running_tasks = {}

\* C6: in every step, a record that is completed stays completed with the
\* same end_time, a record is marked completed only by the one run of its
\* monitor, a dropped record never comes back, and every completed record
\* has end_time >= start_time.
C6_CompletedOnce ==
    [][/\ \A t \in DOMAIN running_tasks \cap DOMAIN running_tasks' :
             running_tasks[t].completed =>
                 /\ running_tasks'[t].completed
                 /\ running_tasks'[t].end_time = running_tasks[t].end_time
       /\ \A t \in DOMAIN running_tasks' :
             /\ running_tasks'[t].completed =>
                    /\ running_tasks'[t].end_time # NoTime
                    /\ running_tasks'[t].end_time >= running_tasks'[t].start_time
             /\ ~(t \in DOMAIN registered /\ t \notin DOMAIN running_tasks)
             /\ (t \notin DOMAIN running_tasks) => ~running_tasks'[t].completed
      ]_vars

\* C6 witness: a record completed some time after it was started
C6_Witness ==
    \E t \in DOMAIN running_tasks :
        /\ running_tasks[t].completed
        /\ running_tasks[t].end_time > running_tasks[t].start_time

\* the time at which the newest task of batch b was spawned
NewestSpawnOf(b) == SetMax({registered[t].start_time : t \in BatchMembers(b)})

\* a _task call that gets past its argument checks (line 1132)
IsSpawn == task_counter' = task_counter + 1

\* C11: a spawn joins the current batch exactly when a current batch exists
\* and the newest task of that batch was spawned less than 5 s earlier;
\* otherwise (5 s or more later, or no current batch) it opens a new batch
\* with a fresh id.  Whether earlier tasks have completed or have been
\* cleared from running_tasks plays no part.
C11_JoinsWithinWindow ==
    [][IsSpawn =>
          IF /\ current_batch_id # NoBatch
             /\ BatchMembers(current_batch_id) # {}
             /\ now - NewestSpawnOf(current_batch_id) < BatchWindow
          THEN /\ current_batch_id' = current_batch_id
               /\ batch_counter' = batch_counter
          ELSE /\ batch_counter' = batch_counter + 1
               /\ current_batch_id' = batch_counter'
               /\ BatchMembers(current_batch_id') = {}
      ]_vars

\* the batches whose consolidated summary has been printed
EmittedBatches == {stdout_summaries[i].batch_id : i \in 1..Len(stdout_summaries)}

\* C36: no record is registered under the id of a batch whose consolidated
\* summary has already been printed, also when the batch was chosen before
\* the summary and the record is stored after it.
C36_NoRegistrationAfterSummary ==
    [][\A t \in DOMAIN registered' \ DOMAIN registered :
          registered'[t].batch_id \notin EmittedBatches]_vars

\* C18: a record whose child left no result file is completed with the
\* result "Result file not found", it counts as a completed member of its
\* batch, and once every task of that batch (of two or more) has completed
\* the consolidated summary of the batch has been emitted.
C18_NoResultStillSummarised ==
    \A t \in DOMAIN running_tasks :
        running_tasks[t].result = CollectedResult(NoFile) =>
            LET b == registered[t].batch_id
            IN /\ running_tasks[t].completed
               /\ monitor_pc[t] = "done"
               /\ (Cardinality(BatchMembers(b)) >= 2 /\ AllFinished(b)) =>
                      SummariesOf(b) # {}

(***************************************************************************)
(* Strings.  Str(t, n) is the Python string with characters t, of length   *)
(* n; Rep(c, n) is the character c repeated n times.                       *)
(***************************************************************************)
Str(t, n) == [text |-> <<t>>, len |-> n]
Rep(c, n) == [text |-> <<c, "*">>, len |-> n]
Concat(a, b) == [text |-> a.text \o b.text, len |-> a.len + b.len]
EmptyStr == [text |-> <<>>, len |-> 0]

Message(role, content) == [role |-> role, content |-> content]

(***************************************************************************)
(* Token accounting, lines 2405-2474                                       *)
(***************************************************************************)
\* line 2407
estimate_tokens(text) == text.len \div 4

\* lines 2409-2417
RECURSIVE count_conversation_tokens(_)
count_conversation_tokens(messages) ==
    IF messages = <<>> THEN 0
    ELSE estimate_tokens(Head(messages).content) + 10
         + count_conversation_tokens(Tail(messages))

\* lines 2441-2456, in the order of the dictionary; names are sequences of
\* characters
ModelTokenLimits ==
    <<[name |-> <<"d", "e", "e", "p", "s", "e", "e", "k", "-", "r", "e", "a", "s", "o", "n", "e", "r">>, limit |-> 128000],
      [name |-> <<"d", "e", "e", "p", "s", "e", "e", "k", "-", "c", "h", "a", "t">>, limit |-> 64000],
      [name |-> <<"g", "e", "m", "i", "n", "i", "-", "p", "r", "o">>, limit |-> 128000],
      [name |-> <<"p", "r", "o">>, limit |-> 128000],
      [name |-> <<"g", "e", "m", "i", "n", "i", "-", "f", "l", "a", "s", "h">>, limit |-> 64000],
      [name |-> <<"f", "l", "a", "s", "h">>, limit |-> 64000],
      [name |-> <<"g", "p", "t", "-", "4">>, limit |-> 128000],
      [name |-> <<"g", "p", "t", "-", "3", ".", "5">>, limit |-> 16000],
      [name |-> <<"c", "l", "a", "u", "d", "e">>, limit |-> 200000]>>

DefaultTokenLimit == 32000

NoModel == <<>>

\* str.lower() on the letters the model names use
LowerChar(c) ==
    CASE c = "G" -> "g" [] c = "P" -> "p" [] c = "T" -> "t" [] OTHER -> c
Lower(name) == [i \in 1..Len(name) |-> LowerChar(name[i])]

\* pattern in name
Contains(name, pattern) ==
    \E i \in 0..(Len(name) - Len(pattern)) :
        SubSeq(name, i + 1, i + Len(pattern)) = pattern

\* lines 2419-2437
get_token_limit(name) ==
    LET exact == {i \in 1..Len(ModelTokenLimits) : ModelTokenLimits[i].name = name}
        matching == {i \in 1..Len(ModelTokenLimits) :
                        Contains(Lower(name), ModelTokenLimits[i].name)}
    IN IF name # NoModel /\ exact # {}
       THEN ModelTokenLimits[SetMin(exact)].limit
       ELSE IF name # NoModel /\ matching # {}
       THEN ModelTokenLimits[SetMin(matching)].limit
       ELSE DefaultTokenLimit

\* lines 2469-2474: current_tokens > limit * 0.8.  The float product is
\* exact for every limit of the table, so the comparison is the integer
\* comparison 10 * current_tokens > 8 * limit.
should_compact(messages, name) ==
    10 * count_conversation_tokens(messages) > 8 * get_token_limit(name)

(***************************************************************************)
(* compact_conversation, lines 2476-2538.  outcome is what the             *)
(* summarisation request of line 2512 did: [ok |-> TRUE, response |-> r]   *)
(* or [ok |-> FALSE] when it raised.                                       *)
(***************************************************************************)
SummaryPrefix == Str("[CONVERSATION SUMMARY] ", 23)

\* messages[-n:]
LastN(messages, n) ==
    IF Len(messages) <= n THEN messages
    ELSE SubSeq(messages, Len(messages) - n + 1, Len(messages))

\* the slip of slicing messages[-3:-1]
recent_messages_shifted(messages) ==
    SubSeq(messages, Len(messages) - 2, Len(messages) - 1)

\* line 2483
recent_messages(messages) == LastN(messages, 2)

\* lines 2482, 2516-2517, 2535-2536: the system prompt, when there is one
SystemPart(messages) ==
    IF messages[1].role = "system" THEN <<messages[1]>> ELSE <<>>

\* lines 2486-2487
messages_to_summarize(messages) ==
    SubSeq(messages, Len(SystemPart(messages)) + 1, Len(messages) - 2)

compact_conversation(messages, outcome) ==
    IF Len(messages) <= 3 THEN messages
    ELSE IF messages_to_summarize(messages) = <<>> THEN messages
    ELSE IF outcome.ok
    THEN SystemPart(messages)
         \o <<Message("system", Concat(SummaryPrefix, outcome.response))>>
         \o recent_messages(messages)
    ELSE SystemPart(messages) \o LastN(messages, 5)

(***************************************************************************)
(* Specification SpecCompact: compact_conversation applied once to a       *)
(* conversation drawn from bounded sets.                                   *)
(***************************************************************************)
MaxMsgs == 5

Roles == {"system", "user", "assistant"}
Contents == {Str("hello", 5), Rep("x", 400)}
SummaryResponses == {Str("they said hello", 15), Rep("y", 2000)}
SummaryOutcomes ==
    {[ok |-> FALSE, response |-> EmptyStr]}
    \cup {[ok |-> TRUE, response |-> r] : r \in SummaryResponses}
NoOutcome == [ok |-> FALSE, response |-> Str("not called", 0)]

Messages == {Message(r, c) : r \in Roles, c \in Contents}

RECURSIVE SeqsOfLen(_, _)
SeqsOfLen(S, n) ==
    IF n = 0 THEN {<<>>}
    ELSE {<<x>> \o q : x \in S, q \in SeqsOfLen(S, n - 1)}

Conversations(max) == UNION {SeqsOfLen(Messages, n) : n \in 1..max}

CompactInit ==
    /\ conv \in Conversations(MaxMsgs)
    /\ summary_call = NoOutcome
    /\ compacted = <<>>
    /\ cpc = "start"
    /\ model_name = NoModel
    /\ compact_flag = FALSE

CompactIdle ==
    /\ conv = <<>>
    /\ summary_call = NoOutcome
    /\ compacted = <<>>
    /\ cpc = "start"
    /\ model_name = NoModel
    /\ compact_flag = FALSE

Compact(outcome) ==
    /\ cpc = "start"
    /\ cpc' = "done"
    /\ summary_call' = outcome
    /\ compacted' = compact_conversation(conv, outcome)
    /\ UNCHANGED <<conv, model_name, compact_flag, not_cvars>>

CompactNext == \E o \in SummaryOutcomes : Compact(o)


(***************************************************************************)
(* Specification SpecThreshold: should_compact applied once, for every     *)
(* model name of ModelNames, to conversations whose estimated token count  *)
(* lies at and around 79% and 80% of the model's limit.                    *)
(***************************************************************************)
MaxThresholdMsgs == 2

ModelNames ==
    {NoModel,
     <<"d", "e", "e", "p", "s", "e", "e", "k", "-", "r", "e", "a", "s", "o", "n", "e", "r">>,
     <<"d", "e", "e", "p", "s", "e", "e", "k", "-", "c", "h", "a", "t">>,
     <<"g", "e", "m", "i", "n", "i", "-", "2", ".", "5", "-", "f", "l", "a", "s", "h">>,
     <<"g", "e", "m", "i", "n", "i", "-", "1", ".", "5", "-", "p", "r", "o">>,
     <<"G", "P", "T", "-", "4", "o">>,
     <<"g", "p", "t", "-", "3", ".", "5", "-", "t", "u", "r", "b", "o">>,
     <<"c", "l", "a", "u", "d", "e", "-", "3", "-", "o", "p", "u", "s">>,
     <<"l", "l", "a", "m", "a", "-", "3">>}

\* a conversation of n messages whose count is `tokens`, the first message
\* having `extra` characters more than a multiple of four
ConvWithTokens(n, tokens, extra) ==
    [i \in 1..n |->
        IF i = 1 THEN Message("user", Rep("x", 4 * (tokens - 10 * n) + extra))
        ELSE Message("assistant", EmptyStr)]

ThresholdTargets(limit) ==
    {(79 * limit) \div 100, (8 * limit) \div 10, (8 * limit) \div 10 + 1, limit}

ThresholdConvs(limit) ==
    {ConvWithTokens(n, t, e) :
        n \in 1..MaxThresholdMsgs, t \in ThresholdTargets(limit), e \in {0, 3}}

ThresholdInit ==
    /\ model_name \in ModelNames
    /\ conv \in ThresholdConvs(get_token_limit(model_name))
    /\ summary_call = NoOutcome
    /\ compacted = <<>>
    /\ cpc = "start"
    /\ compact_flag = FALSE

ShouldCompact ==
    /\ cpc = "start"
    /\ cpc' = "done"
    /\ compact_flag' = should_compact(conv, model_name)
    /\ UNCHANGED <<conv, summary_call, compacted, model_name, not_cvars>>

ThresholdNext == ShouldCompact


\* C7: compact_conversation applied to more than 3 messages returns a list
\* whose first message is the original first message when that message had
\* role system, and whose last two messages are the original last two, on
\* the summary path and on the fallback path.
C7_KeepsSystemAndLastTwo ==
    (cpc = "done" /\ Len(conv) > 3) =>
        /\ conv[1].role = "system" => compacted[1] = conv[1]
        /\ Len(compacted) >= 2
        /\ LastN(compacted, 2) = LastN(conv, 2)

\* C7 witness: the fallback path taken on a conversation with a system prompt
C7_Witness ==
    /\ cpc = "done"
    /\ Len(conv) > 3
    /\ conv[1].role = "system"
    /\ ~summary_call.ok
    /\ compacted # conv

\* C8: whenever compaction is performed (more than 3 messages), the list
\* returned has fewer messages and a strictly smaller estimated token count
\* than the input.
C8_FewerMessagesAndTokens ==
    (cpc = "done" /\ Len(conv) > 3) =>
        /\ Len(compacted) < Len(conv)
        /\ count_conversation_tokens(compacted) < count_conversation_tokens(conv)

\* how often the message m stands in the list
Occurrences(list, m) == Cardinality({i \in DOMAIN list : list[i] = m})

\* C39: the list compact_conversation returns holds no message of the
\* conversation more often than the conversation does: neither the system
\* prompt nor any other message is repeated, on the fallback path of a failed
\* summary as well.
C39_NothingRepeated ==
    cpc = "done" =>
        \A i \in DOMAIN conv :
            Occurrences(compacted, conv[i]) <= Occurrences(conv, conv[i])

\* C9: should_compact returns true when the estimated token count is exactly
\* 80% of the model's token limit and false when it is 79% of it.
C9_FiresAtEightyPercent ==
    cpc = "done" =>
        LET tokens == count_conversation_tokens(conv)
            limit == get_token_limit(model_name)
        IN /\ 10 * tokens = 8 * limit => compact_flag
           /\ 100 * tokens = 79 * limit => ~compact_flag

(***************************************************************************)
(* interactive_chat, lines 2600-2755.  One action per way round the loop   *)
(* up to its next suspension point: the prompt (line 2622), the await of   *)
(* the response task (line 2678), each chunk of the stream (line 2706).    *)
(* The branch of lines 2611-2619 needs a pending task at the top of the    *)
(* loop; every path to the top of the loop has set current_task to None.   *)
(***************************************************************************)
MaxChatMsgs == 4

UserTexts == {Str("hello", 5), Rep("x", 102400)}
PlainResponses == {Str("hi", 2)}
StreamedResponses ==
    {<<>>, <<EmptyStr>>, <<Str("hi", 2)>>, <<Str("hi", 2), Str(" there", 6)>>}
ChatModels == {NoModel, <<"g", "p", "t", "-", "3", ".", "5">>}

ChatInit ==
    /\ chat_messages = <<>>
    /\ ipc = "input"
    /\ interrupted = FALSE
    /\ current_task = "none"
    /\ request = <<>>
    /\ stream = <<>>
    /\ full_response = EmptyStr
    /\ stream_interrupted = FALSE
    /\ tty = "cooked"
    /\ printed = "none"
    /\ asked = "none"

\* lines 2622-2630: get_multiline_input returns None, on ^C (which raises the
\* flag, lines 454-456) or on ^D (lines 457-459)
InputCancelled(key) ==
    /\ ipc = "input"
    /\ key \in {"ctrl_c", "ctrl_d"}
    /\ interrupted' = FALSE
    /\ current_task' = "none"
    /\ asked' = "none"
    /\ UNCHANGED <<chat_messages, ipc, request, stream, full_response,
                   stream_interrupted, tty, model_name, printed, not_ivars>>

\* lines 2660-2662
EmptyInput ==
    /\ ipc = "input"
    /\ asked' = "none"
    /\ UNCHANGED <<chat_messages, ipc, interrupted, current_task, request, stream,
                   full_response, stream_interrupted, tty, printed, model_name,
                   not_ivars>>

\* lines 2478-2512: compact_conversation asks the model for a summary
SummaryCalled(messages) ==
    Len(messages) > 3 /\ messages_to_summarize(messages) # <<>>

\* lines 231-275: the commands that rewrite the configuration and ask for a
\* reload of the host
SwitchCommands ==
    {"/switch-chat", "/switch-reason", "/switch-gemini", "/switch-gemini-pro"}

\* the loop taking the line of a command it has no directive for as a message
SlashMessages_appends(messages, command, outcome) ==
    IF command = "/compact" /\ Len(messages) > 3
    THEN compact_conversation(messages, outcome)
    ELSE IF command = "/clear" THEN <<>>
    ELSE IF command = "/help" THEN Append(messages, Message("user", Str("help", 4)))
    ELSE messages

\* lines 2639-2652: what the directive a command returns does to the
\* conversation: compacted_messages replaces it in place (line 2641),
\* clear_messages empties it (line 2644), everything else leaves it
SlashMessages(messages, command, outcome) ==
    IF command = "/compact" /\ Len(messages) > 3
    THEN compact_conversation(messages, outcome)
    ELSE IF command = "/clear" THEN <<>>
    ELSE messages

\* lines 2632-2658 with handle_slash_command (lines 74-118), _handle_compact
\* (lines 178-211), _handle_clear (lines 157-161), _handle_quit (lines
\* 163-165) and the switch commands (lines 231-275), whose configuration is
\* saved or not; any other command prints its text
SlashCommand(command, outcome, saved) ==
    /\ ipc = "input"
    /\ ipc' = IF command \in {"/quit", "/exit"} THEN "ended"
              ELSE IF command \in SwitchCommands /\ saved THEN "reload_host"
              ELSE ipc
    /\ asked' = IF command = "/compact" /\ SummaryCalled(chat_messages)
                THEN "summary" ELSE "none"
    /\ chat_messages' = SlashMessages(chat_messages, command, outcome)
    /\ UNCHANGED <<interrupted, current_task, request, stream, full_response,
                   stream_interrupted, tty, model_name, printed, not_ivars>>

\* lines 2664-2674: the user message is appended and the response task is
\* created with the conversation as it is
SendUserMessage(user_input) ==
    /\ ipc = "input"
    /\ Len(chat_messages) < MaxChatMsgs
    /\ chat_messages' = Append(chat_messages, Message("user", user_input))
    /\ request' = chat_messages'
    /\ current_task' = "pending"
    /\ ipc' = "awaiting"
    /\ printed' = "Thinking..."
    /\ asked' = "completion"
    /\ UNCHANGED <<interrupted, stream, full_response, stream_interrupted, tty,
                   model_name, not_ivars>>

\* lines 2679-2683
RequestCancelled ==
    /\ ipc = "awaiting"
    /\ interrupted' = FALSE
    /\ current_task' = "none"
    /\ ipc' = "input"
    /\ printed' = "Request cancelled"
    /\ UNCHANGED <<chat_messages, request, stream, full_response, stream_interrupted,
                   tty, model_name, asked, not_ivars>>

\* lines 2684-2687
RequestFails ==
    /\ ipc = "awaiting"
    /\ current_task' = "none"
    /\ ipc' = "input"
    /\ printed' = "Error generating response"
    /\ UNCHANGED <<chat_messages, interrupted, request, stream, full_response,
                   stream_interrupted, tty, model_name, asked, not_ivars>>

\* lines 2689-2691 and 2744-2747: a response that is no stream
PlainResponse(response) ==
    /\ ipc = "awaiting"
    /\ current_task' = "none"
    /\ chat_messages' = Append(chat_messages, Message("assistant", response))
    /\ ipc' = "input"
    /\ UNCHANGED <<interrupted, request, stream, full_response,
                   stream_interrupted, tty, model_name, asked, printed, not_ivars>>

\* lines 2689-2704: a streamed response; the terminal goes to raw mode
StreamStarts(chunks) ==
    /\ ipc = "awaiting"
    /\ current_task' = "none"
    /\ stream' = chunks
    /\ full_response' = EmptyStr
    /\ stream_interrupted' = FALSE
    /\ tty' = "raw"
    /\ ipc' = "streaming"
    /\ UNCHANGED <<chat_messages, interrupted, request, model_name, asked, printed,
                   not_ivars>>

\* the assistant message put in front of the conversation
AfterStream_front(msgs, text) ==
    IF text # EmptyStr THEN <<Message("assistant", text)>> \o msgs ELSE msgs

\* lines 2741-2743: what the conversation is after the stream
AfterStream(msgs, text) ==
    IF text # EmptyStr THEN Append(msgs, Message("assistant", text)) ELSE msgs

\* lines 2706-2743, one chunk: key is what stdin holds when the chunk
\* arrives ("esc", another character, or nothing)
StreamChunk(key) ==
    /\ ipc = "streaming"
    /\ stream # <<>>
    /\ IF key = "esc" \/ interrupted
       THEN \* lines 2710-2718 then 2730-2743
            /\ stream_interrupted' = TRUE
            /\ interrupted' = IF key = "esc" THEN interrupted ELSE FALSE
            /\ tty' = "cooked"
            /\ chat_messages' = AfterStream(chat_messages, full_response)
            /\ ipc' = "input"
            /\ UNCHANGED <<stream, full_response>>
       ELSE \* lines 2720-2729
            /\ full_response' = Concat(full_response, Head(stream))
            /\ stream' = Tail(stream)
            /\ UNCHANGED <<stream_interrupted, interrupted, tty, chat_messages, ipc>>
    /\ UNCHANGED <<current_task, request, model_name, asked, printed, not_ivars>>

\* the stream is exhausted: lines 2730-2743
StreamEnds ==
    /\ ipc = "streaming"
    /\ stream = <<>>
    /\ tty' = "cooked"
    /\ chat_messages' = AfterStream(chat_messages, full_response)
    /\ ipc' = "input"
    /\ UNCHANGED <<interrupted, current_task, request, stream, full_response,
                   stream_interrupted, model_name, asked, printed, not_ivars>>

\* another component raises input_handler.interrupted while the controller
\* waits for the model or streams
RaiseInterrupt ==
    /\ ipc \in {"awaiting", "streaming"}
    /\ ~interrupted
    /\ interrupted' = TRUE
    /\ UNCHANGED <<chat_messages, ipc, current_task, request, stream, full_response,
                   stream_interrupted, tty, model_name, asked, printed, not_ivars>>

ChatNext ==
    \/ \E k \in {"ctrl_c", "ctrl_d"} : InputCancelled(k)
    \/ EmptyInput
    \/ \E o \in SummaryOutcomes : SlashCommand("/compact", o, FALSE)
    \/ \E c \in {"/clear", "/quit", "/help"} : SlashCommand(c, NoOutcome, FALSE)
    \/ \E saved \in BOOLEAN : SlashCommand("/switch-chat", NoOutcome, saved)
    \/ \E u \in UserTexts : SendUserMessage(u)
    \/ RequestCancelled
    \/ RequestFails
    \/ \E r \in PlainResponses : PlainResponse(r)
    \/ \E c \in StreamedResponses : StreamStarts(c)
    \/ \E k \in {"none", "other", "esc"} : StreamChunk(k)
    \/ StreamEnds
    \/ RaiseInterrupt

\* C3: when a stream is cut by ESC or by the interrupted flag, at any chunk
\* boundary, the step that stops it restores the terminal and appends no
\* assistant message, and the loop is back at the prompt.
C3_InterruptAppendsNothing ==
    [][(ipc = "streaming" /\ stream_interrupted') =>
           /\ tty' = "cooked"
           /\ chat_messages' = chat_messages
           /\ ipc' = "input"]_vars

\* the step in which the controller hands a conversation to the model, or
\* begins to stream the response it got
StartsRequestOrStream ==
    \/ ipc = "input" /\ ipc' = "awaiting"
    \/ ipc = "awaiting" /\ ipc' = "streaming"

\* C38: whenever the controller starts a new model request or starts to
\* stream a new response, the interrupted flag is false: an interrupt is used
\* up by the cancellation it causes and does not reach a later operation.
C38_FlagClearAtStart ==
    [][StartsRequestOrStream => ~interrupted]_vars

\* C10: the step that appends a user message and asks the model for a
\* completion hands over a compacted conversation whenever the conversation
\* with the new message is over 0.8 times the token limit.
C10_CompactsBeforeSending ==
    [][(ipc = "input" /\ ipc' = "awaiting"
          /\ should_compact(chat_messages', model_name)) =>
           \E o \in SummaryOutcomes :
               request' = compact_conversation(chat_messages', o)]_vars

\* the conversation as it was before the turn whose request is in flight
BeforeTurn == SubSeq(request, 1, Len(request) - 1)

\* C17: when the model backend raises while the controller awaits the
\* response, the controller prints the error, the conversation is again what
\* it was before the turn (no message of the failed turn is left in it), and
\* the loop goes on to the next input prompt.
C17_FailedTurnDiscarded ==
    [][(ipc = "awaiting" /\ printed' = "Error generating response") =>
          /\ ipc' = "input"
          /\ chat_messages' = BeforeTurn]_vars

\* a completion is in flight: the response task is awaited or its stream is
\* being read
InFlight == ipc \in {"awaiting", "streaming"}

AssistantAppended(before, after) ==
    /\ Len(after) = Len(before) + 1
    /\ SubSeq(after, 1, Len(before)) = before
    /\ after[Len(after)].role = "assistant"

\* C23: a completion is started only when none is in flight, by the step
\* that appends the user message of the turn at the end of the conversation;
\* while it is in flight the conversation only changes by the assistant
\* message of that turn, appended at the end behind that user message, which
\* ends the turn.
C23_TurnsLinearised ==
    [][/\ (current_task' = "pending" /\ current_task # "pending") =>
             /\ ~InFlight
             /\ \E u \in UserTexts :
                   chat_messages' = Append(chat_messages, Message("user", u))
       /\ (InFlight /\ chat_messages' # chat_messages) =>
             /\ AssistantAppended(request, chat_messages')
             /\ request[Len(request)].role = "user"
             /\ ~InFlight'
       /\ (current_task = "pending") => ipc = "awaiting"
       /\ (~InFlight /\ InFlight') => current_task' = "pending"]_vars

\* C23 witness: two turns, each a user message and then its assistant
\* message, the second one streamed
C23_Witness ==
    /\ ipc = "input"
    /\ Len(chat_messages) = 4
    /\ \A i \in 1..4 :
          chat_messages[i].role = IF i % 2 = 1 THEN "user" ELSE "assistant"
    /\ full_response # EmptyStr

\* the loop handles a line that begins with "/"
SlashLine(command) ==
    IF command = "/compact"
    THEN \E o \in SummaryOutcomes : SlashCommand(command, o, FALSE)
    ELSE IF command \in SwitchCommands
    THEN \E saved \in BOOLEAN : SlashCommand(command, NoOutcome, saved)
    ELSE SlashCommand(command, NoOutcome, FALSE)
AnySlashLine ==
    /\ ipc = "input"
    /\ \E c \in {"/compact", "/clear", "/quit", "/help", "/switch-chat"} : SlashLine(c)
UserAppended ==
    \E m \in {chat_messages'[i] : i \in 1..Len(chat_messages')} :
        m.role = "user" /\ chat_messages' = Append(chat_messages, m)
AppliesDirectives ==
    /\ SlashLine("/clear") => chat_messages' = <<>> /\ ipc' = "input"
    /\ SlashLine("/quit") => ipc' = "ended"
    /\ ipc' = "reload_host" => chat_messages' = chat_messages
    /\ SlashLine("/compact") =>
          /\ ipc' = "input"
          /\ \E o \in SummaryOutcomes :
                chat_messages' = compact_conversation(chat_messages, o)

\* C30 as stated: a line that begins with "/" never leads to a call of the
\* model nor to a user message appended, and clear, quit, reload_host and
\* compacted_messages empty the conversation, end the loop, return the
\* conversation unchanged and replace the conversation.
C30_SlashNeverCallsModel ==
    [][AnySlashLine =>
          /\ asked' = "none"
          /\ ~UserAppended
          /\ current_task' = "none"
          /\ AppliesDirectives]_vars

\* C30: a line that begins with "/" never leads to a completion requested
\* for the conversation nor to a user message appended; the only call of
\* the model it can lead to is the summary call of /compact on a
\* conversation of more than 3 messages; clear, quit, reload_host and
\* compacted_messages empty the conversation, end the loop, return the
\* conversation unchanged and replace the conversation.
C30_SlashRequestsNoCompletion ==
    [][AnySlashLine =>
          /\ asked' \in {"none", "summary"}
          /\ asked' = "summary" => (SlashLine("/compact") /\ Len(chat_messages) > 3)
          /\ ~UserAppended
          /\ current_task' = "none"
          /\ request' = request
          /\ AppliesDirectives]_vars

\* C30 witness: /compact has replaced a conversation by its summary and the
\* loop is back at the prompt with no request made
C30_Witness ==
    /\ asked = "summary"
    /\ ipc = "input"
    /\ current_task = "none"
    /\ \E i \in 1..Len(chat_messages) : chat_messages[i].role = "system"

(***************************************************************************)
(* Tool forwarding.  The child (execute_task_subprocess, lines 3008-3113)  *)
(* connects to the port the parent listens on (lines 1185-1188, 3032-3040) *)
(* and its dispatcher forwards every tool but the subagent management      *)
(* tools (lines 2110-2116).  _forward_tool_to_parent (lines 2156-2220) is  *)
(* synchronous: the child has one request open at a time.  The parent      *)
(* serves the connection in _handle_subagent_communication (lines          *)
(* 1348-1410) and runs one _handle_subagent_tool_request task per request  *)
(* (lines 1461-1570).  A uuid4 request id is modelled by a fresh number.   *)
(***************************************************************************)
MaxRequests == 2

\* the tasks whose subagent is followed: each connection has its own
\* socket, lines and handler tasks, and request ids are never shared
ForwardingTasks == {1}

NoRequest == [request_id |-> 0]

\* keys of available_tools and the "name" each carries (lines 2107-2108)
ToolKeys == {"builtin:read_file", "builtin:task"}
ToolName(tool_key) ==
    IF tool_key = "builtin:read_file" THEN "read_file" ELSE "task"
ToolArgs == {"{file_path: a}"}

\* line 2113
excluded_tools == {"task", "task_status", "task_results"}

\* lines 2112-2116: whether the dispatcher of an agent forwards the call
Forwards(tool_key, subagent, has_comm_socket) ==
    subagent /\ has_comm_socket /\ ToolName(tool_key) \notin excluded_tools

\* what running a tool in the parent can end in: _execute_mcp_tool returns a
\* text, also for errors (lines 2099-2154); a tool that calls sys.exit ends
\* it with SystemExit (lines 1516-1541)
DispatchOutcomes ==
    {[kind |-> "text", text |-> "contents of a"],
     [kind |-> "text", text |-> "Error: File not found: a"],
     [kind |-> "exit", code |-> "0"],
     [kind |-> "exit", code |-> "2"]}

\* lines 2163-2173
RequestMessage(request_id, tool_key, tool_args) ==
    [type |-> "tool_execution_request",
     request_id |-> request_id,
     tool_key |-> tool_key,
     tool_name |-> ToolName(tool_key),
     tool_args |-> tool_args]

\* lines 1472-1474
ValidRequest(message) ==
    /\ message.request_id # 0
    /\ message.tool_key # ""
    /\ message.tool_name # ""

\* lines 1508-1541: the response to a request whose execution ended in outcome
ResponseMessage(request_id, outcome) ==
    IF outcome.kind = "text"
    THEN [type |-> "tool_execution_response", request_id |-> request_id,
          success |-> TRUE, result |-> <<outcome.text>>]
    ELSE IF outcome.code = "0"
    THEN [type |-> "tool_execution_response", request_id |-> request_id,
          success |-> TRUE, result |-> <<"Command completed successfully">>]
    ELSE [type |-> "tool_execution_response", request_id |-> request_id,
          success |-> FALSE, error |-> <<"Tool exited with code ", outcome.code>>]

\* the slip of answering to whichever response arrives first
ResponseMatches_any(response, request_id) ==
    response.type = "tool_execution_response"

\* lines 2199-2200
ResponseMatches(response, request_id) ==
    /\ response.type = "tool_execution_response"
    /\ response.request_id = request_id

\* the slip of reporting every response as an error of the parent
ForwardReturn_error(response) ==
    <<"Error from parent: ">> \o
        (IF "error" \in DOMAIN response THEN response.error ELSE response.result)

\* lines 2203-2207: what the forwarding call returns for its response
ForwardReturn(response) ==
    IF response.success
    THEN IF "result" \in DOMAIN response
         THEN response.result ELSE <<"Tool executed successfully">>
    ELSE <<"Error from parent: ">> \o
            (IF "error" \in DOMAIN response
             THEN response.error ELSE <<"Unknown error">>)

\* line 2216
NoResponseReturn(tool_name) ==
    <<"Error: No response received from parent for tool ", tool_name>>

\* socket.send (lines 1562, 2177) transmits the whole line or, on a socket
\* with a timeout, a part of it; neither caller looks at the count returned.
\* A channel is the sequence of lines written and not yet read; a line that
\* lacks its end is "partial" and is the last; what is sent after it
\* completes it to a line that is no JSON ("invalid").
PartialLine == [type |-> "partial"]
InvalidLine == [type |-> "invalid"]

Transmit(channel, line, whole) ==
    IF channel # <<>> /\ channel[Len(channel)] = PartialLine
    THEN IF whole
         THEN [channel EXCEPT ![Len(channel)] = InvalidLine]
         ELSE channel
    ELSE Append(channel, IF whole THEN line ELSE PartialLine)

\* lines 1388-1389, 2192-2193: a complete line is there to be read
LineReady(channel) == channel # <<>> /\ Head(channel) # PartialLine

\* line 1377: the condition of the parent's receive loop
LoopCond(t) == t \in DOMAIN running_tasks /\ ~running_tasks[t].completed

\* whether the child of task t holds a connection
Connected(t) == child_pc[t] \in {"idle", "waiting"}

FwdInit ==
    /\ is_subagent \in BOOLEAN
    /\ conn = [t \in ForwardingTasks |-> "none"]
    /\ comm_pc = [t \in ForwardingTasks |-> "accepting"]
    /\ to_parent = [t \in ForwardingTasks |-> <<>>]
    /\ to_child = [t \in ForwardingTasks |-> <<>>]
    /\ child_pc = [t \in ForwardingTasks |-> "starting"]
    /\ child_req = [t \in ForwardingTasks |-> NoRequest]
    /\ sock_timeout = [t \in ForwardingTasks |-> FALSE]
    /\ handlers = {}
    /\ next_request = 1
    /\ requests = <<>>
    /\ dispatched = <<>>
    /\ sent = <<>>
    /\ returned = <<>>

FwdIdle == FwdInit /\ is_subagent = FALSE

\* ---- the child ----------------------------------------------------------

\* lines 3032-3038: the child connects; the connection waits in the backlog
\* of the listening socket until the parent accepts it
ChildConnects(t) ==
    /\ t \in DOMAIN process
    /\ process[t] = "running"
    /\ child_pc[t] = "starting"
    /\ comm_pc[t] # "done"
    /\ child_pc' = [child_pc EXCEPT ![t] = "idle"]
    /\ UNCHANGED <<is_subagent, conn, comm_pc, to_parent, to_child, child_req,
                   sock_timeout, handlers, next_request, requests, dispatched,
                   sent, returned, not_fvars>>

\* lines 3039-3040: the listening socket is gone, the child runs without one
ChildConnectFails(t) ==
    /\ t \in DOMAIN process
    /\ process[t] = "running"
    /\ child_pc[t] = "starting"
    /\ comm_pc[t] = "done"
    /\ child_pc' = [child_pc EXCEPT ![t] = "local"]
    /\ UNCHANGED <<is_subagent, conn, comm_pc, to_parent, to_child, child_req,
                   sock_timeout, handlers, next_request, requests, dispatched,
                   sent, returned, not_fvars>>

\* _execute_mcp_tool in the child (lines 2099-2120) for a registered key:
\* the call is forwarded (lines 2161-2181) or runs in the child.  The socket
\* blocks until the first call has set its timeout, and send on a blocking
\* socket transmits the whole line.
ChildCallsTool(t, tool_key, tool_args, whole) ==
    /\ t \in DOMAIN process
    /\ process[t] = "running"
    /\ child_pc[t] \in {"idle", "local"}
    /\ next_request <= MaxRequests
    /\ whole \/ sock_timeout[t]
    /\ IF Forwards(tool_key, TRUE, child_pc[t] = "idle")
       THEN LET message == RequestMessage(next_request, tool_key, tool_args)
            IN /\ to_parent' = [to_parent EXCEPT ![t] = Transmit(@, message, whole)]
               /\ child_req' = [child_req EXCEPT ![t] = message]
               /\ child_pc' = [child_pc EXCEPT ![t] = "waiting"]
               /\ sock_timeout' = [sock_timeout EXCEPT ![t] = TRUE]
               /\ requests' = [i \in DOMAIN requests \cup {next_request} |->
                                 IF i = next_request
                                 THEN [task_id |-> t, tool_key |-> tool_key,
                                       tool_args |-> tool_args]
                                 ELSE requests[i]]
               /\ next_request' = next_request + 1
       ELSE UNCHANGED <<to_parent, child_req, sock_timeout, child_pc, requests,
                        next_request>>
    /\ UNCHANGED <<is_subagent, conn, comm_pc, to_child, handlers, dispatched,
                   sent, returned, not_fvars>>

\* how a forwarding call ends: the value it returns and the request id of
\* the response the value was taken from (0 when from none)
Returns(t, value, response_id) ==
    /\ returned' = [i \in DOMAIN returned \cup {child_req[t].request_id} |->
                      IF i = child_req[t].request_id
                      THEN [value |-> value, response_id |-> response_id]
                      ELSE returned[i]]
    /\ child_req' = [child_req EXCEPT ![t] = NoRequest]
    /\ child_pc' = [child_pc EXCEPT ![t] = "idle"]

\* lines 2185-2209: the child reads one line; a line that is no JSON or a
\* response that does not match its request is dropped
ChildReceives(t) ==
    /\ child_pc[t] = "waiting"
    /\ process[t] = "running"
    /\ LineReady(to_child[t])
    /\ to_child' = [to_child EXCEPT ![t] = Tail(@)]
    /\ LET response == Head(to_child[t])
       IN IF ResponseMatches(response, child_req[t].request_id)
          THEN Returns(t, ForwardReturn(response), response.request_id)
          ELSE UNCHANGED <<returned, child_req, child_pc>>
    /\ UNCHANGED <<is_subagent, conn, comm_pc, to_parent, sock_timeout,
                   handlers, next_request, requests, dispatched, sent,
                   not_fvars>>

\* what the parent does within seconds: the accept (10 s, line 1359), the
\* read of a line that has arrived (1 s poll, line 1371), the start of a
\* handler task that has been created
ParentPending(t) ==
    \/ comm_pc[t] = "accepting"
    \/ comm_pc[t] = "receiving" /\ LineReady(to_parent[t])
    \/ \E h \in handlers : h.task_id = t /\ h.pc = "created"

\* lines 2180-2181, 2187-2189, 2212-2216: no line is completed for 300
\* seconds, or the parent's end of the connection is closed; what the call
\* had read of a partial line goes with its buffer (line 2184)
ChildGivesUp(t) ==
    /\ child_pc[t] = "waiting"
    /\ process[t] = "running"
    /\ ~LineReady(to_child[t])
    /\ ~ParentPending(t)
    /\ to_child' = [to_child EXCEPT ![t] = <<>>]
    /\ Returns(t, NoResponseReturn(child_req[t].tool_name), 0)
    /\ UNCHANGED <<is_subagent, conn, comm_pc, to_parent, sock_timeout,
                   handlers, next_request, requests, dispatched, sent,
                   not_fvars>>

\* ---- the parent: _handle_subagent_communication --------------------------

\* lines 1357-1377: the connection is accepted and stored in task_info, the
\* loop condition is evaluated for the first time
CommAccept(t) ==
    /\ t \in DOMAIN process
    /\ comm_pc[t] = "accepting"
    /\ Connected(t)
    /\ IF LoopCond(t)
       THEN /\ comm_pc' = [comm_pc EXCEPT ![t] = "receiving"]
            /\ conn' = [conn EXCEPT ![t] = "open"]
       ELSE /\ comm_pc' = [comm_pc EXCEPT ![t] = "done"]
            /\ conn' = [conn EXCEPT ![t] = "closed"]
    /\ UNCHANGED <<is_subagent, to_parent, to_child, child_pc, child_req,
                   sock_timeout, handlers, next_request, requests, dispatched,
                   sent, returned, not_fvars>>

\* lines 1359, 1365-1367, 1405-1410: no connection within 10 seconds
AcceptTimeout(t) ==
    /\ t \in DOMAIN process
    /\ comm_pc[t] = "accepting"
    /\ child_pc[t] = "starting"
    /\ comm_pc' = [comm_pc EXCEPT ![t] = "done"]
    /\ UNCHANGED <<is_subagent, conn, to_parent, to_child, child_pc, child_req,
                   sock_timeout, handlers, next_request, requests, dispatched,
                   sent, returned, not_fvars>>

\* lines 1377-1395 and 1412-1419: a line is read; for a request its handler
\* task is created, a line that is no JSON is logged; then the loop
\* condition is evaluated
CommReceives(t) ==
    /\ comm_pc[t] = "receiving"
    /\ LineReady(to_parent[t])
    /\ to_parent' = [to_parent EXCEPT ![t] = Tail(@)]
    /\ handlers' =
          IF Head(to_parent[t]).type = "tool_execution_request"
          THEN handlers \cup
                 {[task_id |-> t, message |-> Head(to_parent[t]),
                   pc |-> "created", original_is_subagent |-> FALSE]}
          ELSE handlers
    /\ IF LoopCond(t)
       THEN UNCHANGED <<comm_pc, conn>>
       ELSE /\ comm_pc' = [comm_pc EXCEPT ![t] = "done"]
            /\ conn' = [conn EXCEPT ![t] = "closed"]
    /\ UNCHANGED <<is_subagent, to_child, child_pc, child_req, sock_timeout,
                   next_request, requests, dispatched, sent, returned,
                   not_fvars>>

\* lines 1377, 1381-1382, 1397-1399 and the exit of the with block: recv
\* times out and the record is completed or gone, or the child's end is closed
CommLoopExits(t) ==
    /\ comm_pc[t] = "receiving"
    /\ ~LineReady(to_parent[t])
    /\ ~LoopCond(t) \/ process[t] = "exited"
    /\ comm_pc' = [comm_pc EXCEPT ![t] = "done"]
    /\ conn' = [conn EXCEPT ![t] = "closed"]
    /\ UNCHANGED <<is_subagent, to_parent, to_child, child_pc, child_req,
                   sock_timeout, handlers, next_request, requests, dispatched,
                   sent, returned, not_fvars>>

\* ---- the parent: _handle_subagent_tool_request ---------------------------

\* lines 1464-1499: the checks, then the flag is saved and cleared and the
\* dispatcher is entered.  comm_socket is set for every record (line 1224).
HandlerStarts(h) ==
    /\ h \in handlers
    /\ h.pc = "created"
    /\ IF ValidRequest(h.message) /\ h.task_id \in DOMAIN running_tasks
       THEN /\ handlers' = (handlers \ {h}) \cup
                   {[h EXCEPT !.pc = "executing",
                              !.original_is_subagent = is_subagent]}
            /\ is_subagent' = FALSE
       ELSE /\ handlers' = handlers \ {h}
            /\ UNCHANGED is_subagent
    /\ UNCHANGED <<conn, comm_pc, to_parent, to_child, child_pc, child_req,
                   sock_timeout, next_request, requests, dispatched, sent,
                   returned, not_fvars>>

\* what client_socket.send (line 1562) can do: it raises on a socket the
\* parent has closed, and may on one whose peer has exited
SendOutcomes(t) ==
    IF conn[t] # "open" THEN {"raises"}
    ELSE IF process[t] = "running" THEN {"whole", "part"}
    ELSE {"whole", "part", "raises"}

\* the response written to the socket of every child
SendResponse_broadcast(channels, t, response, send) ==
    IF send = "raises" THEN channels
    ELSE [u \in DOMAIN channels |-> Transmit(channels[u], response, send = "whole")]

\* lines 1557-1567: the response goes to the client socket of the record
\* that asked; an error of send is logged
SendResponse(channels, t, response, send) ==
    IF send = "raises" THEN channels
    ELSE [channels EXCEPT ![t] = Transmit(@, response, send = "whole")]

\* lines 1499-1567: the tool ends; on the path of a returned text the flag
\* is restored (line 1502); the response is sent on the socket stored in
\* task_info
HandlerFinishes(h, outcome, send) ==
    /\ h \in handlers
    /\ h.pc = "executing"
    /\ send \in SendOutcomes(h.task_id)
    /\ handlers' = handlers \ {h}
    /\ is_subagent' = IF outcome.kind = "text"
                      THEN h.original_is_subagent ELSE is_subagent
    /\ LET id == h.message.request_id
           t == h.task_id
           response == ResponseMessage(id, outcome)
       IN /\ dispatched' = [i \in DOMAIN dispatched \cup {id} |->
                              IF i = id
                              THEN [outcome |-> outcome,
                                    tool_key |-> h.message.tool_key,
                                    tool_args |-> h.message.tool_args]
                              ELSE dispatched[i]]
          /\ to_child' = SendResponse(to_child, t, response, send)
          /\ IF send = "whole"
             THEN sent' = [i \in DOMAIN sent \cup {id} |->
                                IF i # id THEN sent[i]
                                ELSE IF id \in DOMAIN sent
                                THEN Append(sent[id], response)
                                ELSE <<response>>]
             ELSE UNCHANGED sent
    /\ UNCHANGED <<conn, comm_pc, to_parent, child_pc, child_req, sock_timeout,
                   next_request, requests, returned, not_fvars>>

SomeHandlerStarts == \E h \in handlers : HandlerStarts(h)

SomeHandlerFinishes ==
    \E h \in handlers, o \in DispatchOutcomes, s \in {"whole", "part", "raises"} :
        HandlerFinishes(h, o, s)

FwdSpawn(description, prompt) ==
    /\ task_counter + 1 \in ForwardingTasks
    /\ TaskDecide(description, prompt)

FwdNext ==
    \/ \E d \in Descriptions, p \in Prompts : FwdSpawn(d, p)
    \/ TaskRegister
    \/ \E t \in 1..MaxTasks : ChildExit(t)
    \/ \E t \in 1..MaxTasks, f \in FileResults \cup {NoFile} :
          MonitorTaskCompletes(t, f)
    \/ \E c \in BOOLEAN : TaskResults(FALSE, c)
    \/ \E t \in ForwardingTasks : ChildConnects(t)
    \/ \E t \in ForwardingTasks : ChildConnectFails(t)
    \/ \E t \in ForwardingTasks, k \in ToolKeys, a \in ToolArgs, w \in BOOLEAN :
          ChildCallsTool(t, k, a, w)
    \/ \E t \in ForwardingTasks : ChildReceives(t)
    \/ \E t \in ForwardingTasks : ChildGivesUp(t)
    \/ \E t \in ForwardingTasks : CommAccept(t)
    \/ \E t \in ForwardingTasks : AcceptTimeout(t)
    \/ \E t \in ForwardingTasks : CommReceives(t)
    \/ \E t \in ForwardingTasks : CommLoopExits(t)
    \/ SomeHandlerStarts
    \/ SomeHandlerFinishes

(***************************************************************************)
(* Properties of the forwarding                                            *)
(***************************************************************************)
\* C37: the step that ends the handling of a request, whatever the tool
\* ended in, leaves the parent's is_subagent flag at the value the handler
\* found when it began.
C37_FlagRestored ==
    [][\A h \in handlers :
          (h.pc = "executing" /\ handlers' = handlers \ {h}) =>
              is_subagent' = h.original_is_subagent]_vars

\* what a response carries for the caller: its result, or its error as the
\* child reports an error of the parent
CarriedBy(response) ==
    IF response.success THEN response.result
    ELSE <<"Error from parent: ">> \o response.error

ReturnedFromResponse(id) == id \in DOMAIN returned /\ returned[id].response_id # 0

\* C4 as stated: for every request whose forwarding call has returned, the
\* parent has sent exactly one response with the request's id, and the call
\* returned the result (or error) of that response, taken from no response
\* with another id.
C4_ExactlyOneResponseReturned ==
    \A id \in DOMAIN returned :
        /\ id \in DOMAIN sent
        /\ Len(sent[id]) = 1
        /\ sent[id][1].request_id = id
        /\ returned[id].response_id = id
        /\ returned[id].value = CarriedBy(sent[id][1])

\* C4 amended: the parent sends at most one response per request, with the
\* request's id, and only for a request a subagent has made; a forwarding
\* call returns either the result (or error) of the one response sent for
\* its own request id, or the text that no response was received; it never
\* returns from a response with another id.
C4_AtMostOneResponseOwnId ==
    /\ \A id \in DOMAIN sent :
          /\ id \in DOMAIN requests
          /\ Len(sent[id]) = 1
          /\ sent[id][1].request_id = id
          /\ sent[id][1].type = "tool_execution_response"
    /\ \A id \in DOMAIN returned :
          IF returned[id].response_id = 0
          THEN returned[id].value =
                   NoResponseReturn(ToolName(requests[id].tool_key))
          ELSE /\ returned[id].response_id = id
               /\ id \in DOMAIN sent
               /\ returned[id].value = CarriedBy(sent[id][1])

\* a call has returned the content of its response although the response
\* to an earlier request of the same child, given up, was sent too, and
\* nothing is left unread
C4_Witness ==
    \E id \in DOMAIN returned, old \in DOMAIN returned :
        /\ old < id
        /\ requests[old].task_id = requests[id].task_id
        /\ returned[old].response_id = 0
        /\ old \in DOMAIN sent
        /\ returned[id].response_id = id
        /\ returned[id].value = CarriedBy(sent[id][1])
        /\ to_child[requests[id].task_id] = <<>>

\* C5 as stated: a forwarded call of a tool that is no subagent management
\* tool returns exactly the text the parent's dispatcher returned for that
\* key and those arguments.
C5_ForwardingTransparent ==
    \A id \in DOMAIN returned :
        ToolName(requests[id].tool_key) \notin excluded_tools =>
            /\ id \in DOMAIN dispatched
            /\ dispatched[id].tool_key = requests[id].tool_key
            /\ dispatched[id].tool_args = requests[id].tool_args
            /\ dispatched[id].outcome.kind = "text" =>
                   returned[id].value = <<dispatched[id].outcome.text>>

\* C5 amended: a forwarded call that returns from a response returns exactly
\* the text the parent's dispatcher returned when it executed the request's
\* key with the request's arguments, be the text a result or an error; the
\* calls that are forwarded are those of tools that are no subagent
\* management tools.
C5_TransparentWhenAnswered ==
    /\ \A id \in DOMAIN requests :
          ToolName(requests[id].tool_key) \notin excluded_tools
    /\ \A id \in DOMAIN dispatched :
          /\ id \in DOMAIN requests
          /\ dispatched[id].tool_key = requests[id].tool_key
          /\ dispatched[id].tool_args = requests[id].tool_args
    /\ \A id \in DOMAIN returned :
          (ReturnedFromResponse(id) /\ id \in DOMAIN dispatched
             /\ dispatched[id].outcome.kind = "text") =>
              returned[id].value = <<dispatched[id].outcome.text>>
    /\ \A id \in DOMAIN returned :
          ReturnedFromResponse(id) => id \in DOMAIN dispatched

\* a forwarded call has returned an error text of the parent's dispatcher
C5_Witness ==
    \E id \in DOMAIN returned :
        /\ ReturnedFromResponse(id)
        /\ dispatched[id].outcome.kind = "text"
        /\ dispatched[id].outcome.text = "Error: File not found: a"
        /\ returned[id].value = <<"Error: File not found: a">>

(***************************************************************************)
(* _execute_mcp_tool_with_keepalive, lines 2222-2264.  The wrapper starts  *)
(* the tool as a task of its own (line 2227) and then loops: it looks at   *)
(* the interrupt flag (line 2237), waits at most one interval for the tool *)
(* (line 2247) and, when the wait times out, appends a keep-alive line     *)
(* (lines 2250-2258).  The tool task runs only while the wrapper is        *)
(* suspended.  Time is counted in whole seconds.                           *)
(***************************************************************************)
MaxToolTime == 12

KeepaliveIntervals == {5, 3}
ToolTexts == {<<"contents of a">>, <<"Error executing tool ", "builtin:read_file">>}
ToolCancelled == <<"Tool execution cancelled">>
NoToolResult == <<>>

\* a wrapper that never looks at the flag
Interrupted_never(handler, flag) == FALSE

\* line 2237
Interrupted(handler, flag) == handler /\ flag

\* a wait of two intervals where one belongs
WaitTimeout_double(interval) == 2 * interval

\* line 2247: timeout=keepalive_interval
WaitTimeout(interval) == interval

\* lines 2255-2257
KeepaliveMsg(elapsed, handler) ==
    [kind |-> "still running", elapsed |-> elapsed, esc_hint |-> handler]

\* line 2239
CancelMsg == [kind |-> "cancelled by user"]

KaInit ==
    /\ ka_pc = "loop"
    /\ ka_interval \in KeepaliveIntervals
    /\ ka_handler \in BOOLEAN
    /\ ka_flag = FALSE
    /\ tool_state = "pending"
    /\ tool_duration \in 0..MaxToolTime
    /\ tool_left = tool_duration
    /\ wait_left = 0
    /\ ka_clock = 0
    /\ keepalive_messages = <<>>
    /\ ka_result = NoToolResult
    /\ raised_pending = FALSE

KaIdle ==
    /\ KaInit
    /\ ka_interval = 5
    /\ ka_handler = FALSE
    /\ tool_duration = 0

\* lines 2235-2247: the top of the loop, up to the wait or to a return
KaLoop ==
    /\ ka_pc = "loop"
    /\ IF tool_state = "done"
       THEN \* lines 2263-2264
            /\ ka_pc' = "returned"
            /\ UNCHANGED <<tool_state, wait_left, keepalive_messages, ka_result>>
       ELSE IF Interrupted(ka_handler, ka_flag)
       THEN \* lines 2238-2244
            /\ tool_state' = "cancelled"
            /\ keepalive_messages' = Append(keepalive_messages, CancelMsg)
            /\ ka_result' = ToolCancelled
            /\ ka_pc' = "returned"
            /\ UNCHANGED wait_left
       ELSE \* line 2247
            /\ ka_pc' = "waiting"
            /\ wait_left' = WaitTimeout(ka_interval)
            /\ UNCHANGED <<tool_state, keepalive_messages, ka_result>>
    /\ UNCHANGED <<ka_interval, ka_handler, ka_flag, tool_left, ka_clock,
                   tool_duration, raised_pending, not_kvars>>

\* one second passes while the wrapper waits and the tool works
KaTick ==
    /\ ka_pc = "waiting"
    /\ tool_state = "pending"
    /\ tool_left > 0
    /\ wait_left > 0
    /\ tool_left' = tool_left - 1
    /\ wait_left' = wait_left - 1
    /\ ka_clock' = ka_clock + 1
    /\ UNCHANGED <<ka_pc, ka_interval, ka_handler, ka_flag, tool_state,
                   keepalive_messages, ka_result, tool_duration,
                   raised_pending, not_kvars>>

\* the tool task ends with the text _execute_mcp_tool returns.  It runs
\* while the wrapper is suspended; when its work ends in the very second
\* the wait times out, either of the two may be scheduled first.
ToolFinishes(text) ==
    /\ tool_state = "pending"
    /\ tool_left = 0
    /\ \/ ka_pc = "waiting"
       \/ ka_pc = "loop" /\ ka_clock > 0
    /\ tool_state' = "done"
    /\ ka_result' = text
    /\ UNCHANGED <<ka_pc, ka_interval, ka_handler, ka_flag, tool_left,
                   wait_left, ka_clock, keepalive_messages, tool_duration,
                   raised_pending, not_kvars>>

\* lines 2247-2248: the wait ends because the tool is done
KaWaitReturns ==
    /\ ka_pc = "waiting"
    /\ tool_state = "done"
    /\ ka_pc' = "returned"
    /\ UNCHANGED <<ka_interval, ka_handler, ka_flag, tool_state, tool_left,
                   wait_left, ka_clock, keepalive_messages, ka_result,
                   tool_duration, raised_pending, not_kvars>>

\* lines 2249-2260: the wait times out with the tool still pending
KaTimeout ==
    /\ ka_pc = "waiting"
    /\ tool_state = "pending"
    /\ wait_left = 0
    /\ keepalive_messages' =
           Append(keepalive_messages, KeepaliveMsg(ka_clock, ka_handler))
    /\ ka_pc' = "loop"
    /\ UNCHANGED <<ka_interval, ka_handler, ka_flag, tool_state, tool_left,
                   wait_left, ka_clock, ka_result, tool_duration,
                   raised_pending, not_kvars>>

\* the input handler sees ESC and raises its flag
KaRaiseFlag ==
    /\ ka_handler
    /\ ~ka_flag
    /\ ka_pc # "returned"
    /\ ka_flag' = TRUE
    /\ raised_pending' = (tool_state = "pending")
    /\ UNCHANGED <<ka_pc, ka_interval, ka_handler, tool_state, tool_left,
                   wait_left, ka_clock, keepalive_messages, ka_result,
                   tool_duration, not_kvars>>

KaNext ==
    \/ KaLoop
    \/ KaTick
    \/ \E text \in ToolTexts : ToolFinishes(text)
    \/ KaWaitReturns
    \/ KaTimeout
    \/ KaRaiseFlag

(***************************************************************************)
(* Properties of the keep-alive wrapper                                    *)
(***************************************************************************)
KaReturned == ka_pc = "returned"
StillRunningLines ==
    {i \in 1..Len(keepalive_messages) :
        keepalive_messages[i].kind = "still running"}

\* C12 as stated: a run during which the flag was raised while the tool was
\* pending ends with the tool task cancelled and "Tool execution cancelled"
\* returned, never with the tool's own result.
C12_CancelledWhenRaised ==
    (KaReturned /\ raised_pending) =>
        /\ ka_result = ToolCancelled
        /\ tool_state = "cancelled"

\* C12: when the wrapper, at the top of its loop, finds the flag raised and
\* the tool still pending, it cancels the tool task and returns "Tool
\* execution cancelled"; it returns that text only after cancelling on a
\* raised flag, and otherwise returns the result of the finished tool.
C12_CancelledWhenSeen ==
    [][/\ (ka_pc = "loop" /\ ka_pc' # "loop" /\ ka_flag /\ tool_state = "pending")
            => /\ ka_pc' = "returned"
               /\ ka_result' = ToolCancelled
               /\ tool_state' = "cancelled"
       /\ (ka_pc' = "returned" /\ ka_result' = ToolCancelled)
            => (tool_state' = "cancelled" /\ ka_flag')
       /\ (ka_pc' = "returned" /\ ka_result' # ToolCancelled)
            => (tool_state' = "done" /\ ka_result' \in ToolTexts)
      ]_vars

\* C12 witness: a tool cancelled after it had been running for a while
C12_Witness ==
    /\ KaReturned
    /\ ka_result = ToolCancelled
    /\ tool_state = "cancelled"
    /\ ka_clock > 0

\* C13 as stated: a tool that ran T seconds to its end under interval I got
\* exactly as many keep-alive lines as whole intervals fit into T.
C13_LinesEqualWholeIntervals ==
    (KaReturned /\ tool_state = "done") =>
        Cardinality(StillRunningLines) = tool_duration \div ka_interval

\* C13: for a tool that runs T seconds to its end under interval I, the
\* number n of keep-alive lines satisfies n*I <= T <= (n+1)*I, that is, n is
\* the number of whole intervals in T, or one fewer when the tool ends at
\* the very end of an interval; no line is added once the wrapper has
\* returned.
C13_LinesMatchIntervals ==
    [][/\ (ka_pc' = "returned" /\ tool_state' = "done") =>
            LET n == Cardinality(StillRunningLines')
            IN /\ n = Len(keepalive_messages')
               /\ n * ka_interval' <= tool_duration'
               /\ tool_duration' <= (n + 1) * ka_interval'
       /\ KaReturned => keepalive_messages' = keepalive_messages
      ]_vars

\* C13 witness: the run of 12 s with an interval of 5 s has ended with its
\* two lines
C13_Witness ==
    /\ KaReturned
    /\ tool_state = "done"
    /\ tool_duration = 12
    /\ ka_interval = 5
    /\ Len(keepalive_messages) = 2

(***************************************************************************)
(* The parent's event loop with several connected subagents.  Every        *)
(* coroutine of the parent runs on the one loop: the receive loops of      *)
(* _handle_subagent_communication (lines 1377-1392), one per child, and    *)
(* the _handle_subagent_tool_request tasks (line 1419).  A coroutine keeps *)
(* the loop until it reaches an await that suspends it.  A handler is      *)
(* suspended by a remote tool (await client.call_tool, line 2131); the     *)
(* built-in executors other than task are plain functions (lines 727-748), *)
(* and _bash_execute stays in subprocess.run (line 765) until the command  *)
(* ends or its timeout passes.                                             *)
(***************************************************************************)
MaxMessages == 2

LoopChildren == {1, 2}
LoopToolKeys == {"builtin:bash_execute", "search:query"}
NoHandler == [task |-> 0]

ToolRequest(tool_key) == [type |-> "tool_execution_request", tool_key |-> tool_key]
DisplayMessage == [type |-> "display_message", message |-> "working"]
LoopMessages == {ToolRequest(k) : k \in LoopToolKeys} \cup {DisplayMessage}

\* lines 2123-2131 with lines 725-750: a built-in executor is called, not
\* awaited into; a remote tool is awaited
Suspends(tool_key) == tool_key \notin {"builtin:bash_execute"}

LoopInit ==
    /\ inbox = [c \in LoopChildren |-> <<>>]
    /\ created = {}
    /\ suspended = {}
    /\ blocking = NoHandler
    /\ answered = {}
    /\ display_messages = [c \in LoopChildren |-> <<>>]
    /\ sent_count = [c \in LoopChildren |-> 0]

\* the loop is free to resume a coroutine
LoopFree == blocking = NoHandler

\* a child writes a message to its socket; the bytes wait in the parent's
\* receive buffer
LoopChildSends(c, message) ==
    /\ sent_count[c] < MaxMessages
    /\ sent_count' = [sent_count EXCEPT ![c] = @ + 1]
    /\ inbox' = [inbox EXCEPT
                    ![c] = Append(@, [message |-> message, n |-> sent_count[c] + 1])]
    /\ UNCHANGED <<created, suspended, blocking, answered, display_messages,
                   not_lvars>>

\* lines 1380-1392 and 1412-1431: the receive loop of child c is resumed
\* with a line and processes it
LoopCommReads(c) ==
    /\ LoopFree
    /\ inbox[c] # <<>>
    /\ LET item == Head(inbox[c])
       IN IF item.message.type = "tool_execution_request"
          THEN /\ created' = created \cup
                     {[task |-> c, n |-> item.n, tool_key |-> item.message.tool_key]}
               /\ UNCHANGED display_messages
          ELSE /\ display_messages' =
                     [display_messages EXCEPT ![c] = Append(@, item.message.message)]
               /\ UNCHANGED created
    /\ inbox' = [inbox EXCEPT ![c] = Tail(@)]
    /\ UNCHANGED <<suspended, blocking, answered, sent_count, not_lvars>>

\* lines 1461-1499: a handler task gets the loop and runs into its tool
LoopHandlerRuns(h) ==
    /\ LoopFree
    /\ h \in created
    /\ created' = created \ {h}
    /\ IF Suspends(h.tool_key)
       THEN /\ suspended' = suspended \cup {h}
            /\ UNCHANGED blocking
       ELSE /\ blocking' = h
            /\ UNCHANGED suspended
    /\ UNCHANGED <<inbox, answered, display_messages, sent_count, not_lvars>>

\* lines 765-786 and 1508-1567: the command ends, the executor returns and
\* the handler sends its response and ends, all without an await
LoopBlockingToolEnds ==
    /\ ~LoopFree
    /\ answered' = answered \cup {blocking}
    /\ blocking' = NoHandler
    /\ UNCHANGED <<inbox, created, suspended, display_messages, sent_count,
                   not_lvars>>

\* lines 2131-2150 and 1508-1567: the remote tool has answered, the handler
\* is resumed and sends its response
LoopAwaitedToolEnds(h) ==
    /\ LoopFree
    /\ h \in suspended
    /\ suspended' = suspended \ {h}
    /\ answered' = answered \cup {h}
    /\ UNCHANGED <<inbox, created, blocking, display_messages, sent_count,
                   not_lvars>>

LoopSomeHandlerRuns == \E h \in created : LoopHandlerRuns(h)
LoopSomeAwaitedToolEnds == \E h \in suspended : LoopAwaitedToolEnds(h)

LoopNext ==
    \/ \E c \in LoopChildren, msg \in LoopMessages : LoopChildSends(c, msg)
    \/ \E c \in LoopChildren : LoopCommReads(c)
    \/ LoopSomeHandlerRuns
    \/ LoopBlockingToolEnds
    \/ LoopSomeAwaitedToolEnds

\* the children for which the parent is executing a tool
ExecutingFor == {h.task : h \in suspended} \cup
                (IF LoopFree THEN {} ELSE {blocking.task})

\* C14: while the parent is executing a tool for one subagent, a message
\* that has arrived from a different subagent can be read at once, and a
\* handler created for a different subagent can run and, once its own tool
\* is done, answer at once: none of them has to wait for the first tool
\* call to finish.
C14_OtherChildrenNotBlocked ==
    \A a \in ExecutingFor : \A b \in LoopChildren \ {a} :
        /\ inbox[b] # <<>> => ENABLED LoopCommReads(b)
        /\ \A h \in created : h.task = b => ENABLED LoopHandlerRuns(h)
        /\ \A h \in suspended : h.task = b => ENABLED LoopAwaitedToolEnds(h)

(***************************************************************************)
(* /quit and shutdown.  interactive_chat returns on /quit (lines 2644-2645 *)
(* with _handle_quit, lines 163-165); chat then leaves its loop and its    *)
(* finally clause awaits host.shutdown() (lines 2929-2936), after which    *)
(* the event loop ends and with it every _monitor_task still polling.      *)
(* shutdown (lines 1872-1892) leaves each client's context, empties        *)
(* mcp_clients and available_tools, and asks the subagent manager, when    *)
(* there is one, to terminate the subagents that manager started; it does  *)
(* not read running_tasks.                                                 *)
(***************************************************************************)
Servers == {"search", "files"}
AexitOutcomes == {"closed", "close_failed"}

ShutdownInit ==
    /\ mcp_clients = Servers
    /\ transports = [srv \in Servers |-> "open"]
    /\ monitors_alive = TRUE
    /\ shutdown_pc = "running"

\* the program is still serving the user
Chatting == ipc \notin {"ended", "reload_host"}

QuitSpawn(description, prompt) == Chatting /\ TaskDecide(description, prompt)
QuitRegister == Chatting /\ TaskRegister
QuitMonitorCompletes(t, file) == monitors_alive /\ MonitorTaskCompletes(t, file)
Quit == \E o \in SummaryOutcomes : SlashCommand("/quit", o, FALSE)

\* lines 1877-1888: every client is asked to leave its context; a failure
\* is logged (line 1883) and the loop goes on; the maps are cleared
Shutdown(outcome) ==
    /\ ipc = "ended"
    /\ shutdown_pc = "running"
    /\ spawning = NoSpawn
    /\ transports' = [srv \in Servers |->
                         IF srv \in mcp_clients THEN outcome[srv] ELSE transports[srv]]
    /\ mcp_clients' = {}
    /\ monitors_alive' = FALSE
    /\ shutdown_pc' = "done"
    /\ UNCHANGED not_svars

QuitNext ==
    \/ \E d \in Descriptions, p \in Prompts : QuitSpawn(d, p)
    \/ QuitRegister
    \/ \E t \in 1..MaxTasks : ChildExit(t)
    \/ \E t \in 1..MaxTasks, f \in FileResults \cup {NoFile} :
          QuitMonitorCompletes(t, f)
    \/ \E d \in TickSteps : Tick(d)
    \/ Quit
    \/ \E outcome \in [Servers -> AexitOutcomes] : Shutdown(outcome)

\* C15: once /quit has ended the interactive loop and shutdown has run,
\* every remote tool client has been asked to close, no child process
\* started by a task call is still running, and no temp task file of those
\* children is left.
C15_QuitCleansUp ==
    shutdown_pc = "done" =>
        /\ mcp_clients = {}
        /\ \A srv \in Servers : transports[srv] # "open"
        /\ \A t \in DOMAIN process : process[t] # "running"
        /\ task_files = {}

(***************************************************************************)
(* The tool layer as functions of the call and of what the environment     *)
(* does to it.  A text is the tuple of the pieces its f-string is made of; *)
(* the first piece of every text below is its literal beginning.           *)
(***************************************************************************)
Text(pieces) == [kind |-> "text", text |-> pieces]
Raises(exc) == [kind |-> "raises", exc |-> exc]
NoOutput == [kind |-> "none"]

\* lines 756-786
_bash_execute(args, env) ==
    IF args = "missing" THEN Text(<<"Error: ", "No command provided">>)
    ELSE IF env = "timeout"
    THEN Text(<<"Error: ", "Command timed out after ", "120", " seconds">>)
    ELSE IF env = "os_error" THEN Text(<<"Error executing command: ", "detail">>)
    ELSE Text(<<"STDOUT:\n", "out">>)

\* lines 788-813
_read_file(args, env) ==
    IF args = "missing" THEN Text(<<"Error: ", "No file path provided">>)
    ELSE IF env = "file_missing" THEN Text(<<"Error: ", "File not found: ", "a">>)
    ELSE IF env = "os_error" THEN Text(<<"Error reading file: ", "detail">>)
    ELSE Text(<<"     1", "contents of a">>)

\* lines 815-835
_write_file(args, env) ==
    IF args = "missing" THEN Text(<<"Error: ", "No file path provided">>)
    ELSE IF env = "os_error" THEN Text(<<"Error writing file: ", "detail">>)
    ELSE Text(<<"Successfully wrote ", "5", " characters to ", "a">>)

\* lines 1072-1117: the subprocess.run of line 1081 is outside any try
_webfetch(args, env) ==
    IF args = "missing" THEN Text(<<"Error: ", "No URL provided">>)
    ELSE IF env = "timeout" THEN Raises("TimeoutExpired")
    ELSE IF env = "curl_failed"
    THEN Text(<<"Error fetching URL (curl return code ", "6", "): ", "detail">>)
    ELSE Text(<<"<html>">>)

\* lines 1119-1247, the text returned
_task_text(args, env) ==
    IF args = "missing" THEN Text(<<"Error: ", "No task description provided">>)
    ELSE IF env = "os_error"
    THEN Text(<<"Error starting subagent task '", "investigate a", "': ", "detail">>)
    ELSE Text(<<"[SUBAGENT TASK STARTED]", "task_1">>)

BuiltinNames == {"bash_execute", "read_file", "write_file", "webfetch", "task"}

\* lines 725-754
_execute_builtin_tool(tool_name, args, env) ==
    IF tool_name = "bash_execute" THEN _bash_execute(args, env)
    ELSE IF tool_name = "read_file" THEN _read_file(args, env)
    ELSE IF tool_name = "write_file" THEN _write_file(args, env)
    ELSE IF tool_name = "webfetch" THEN _webfetch(args, env)
    ELSE IF tool_name = "task" THEN _task_text(args, env)
    ELSE Text(<<"Unknown built-in tool: ", tool_name>>)

\* self.available_tools: the built-in tools (lines 533-722) and the tools a
\* connected server registered (lines 1837-1861)
RemoteKeys == {"search:query"}
available_tools == {"builtin:" \o n : n \in BuiltinNames} \cup RemoteKeys
DispatchKeys == available_tools \cup {"search:nothing"}

ServerOf(tool_key) == IF tool_key \in RemoteKeys THEN "search" ELSE "builtin"
NameOf(tool_key) ==
    IF tool_key \in RemoteKeys THEN "query"
    ELSE CHOOSE n \in BuiltinNames : tool_key = "builtin:" \o n

\* lines 2110-2116: a subagent with a comm_socket forwards every tool but
\* the task tools
DispatchForwards(tool_key, subagent, socket) ==
    subagent /\ socket /\ NameOf(tool_key) \notin excluded_tools

\* lines 2156-2220, the texts _forward_tool_to_parent returns
ForwardedText(tool_name, env) ==
    IF env = "no_response"
    THEN Text(<<"Error: ", "No response received from parent for tool ", tool_name>>)
    ELSE IF env = "send_fails"
    THEN Text(<<"Error forwarding tool to parent: ", "detail">>)
    ELSE IF env = "parent_error" THEN Text(<<"Error from parent: ", "detail">>)
    ELSE Text(<<"result of the parent">>)

\* lines 2126-2150
RemoteCall(tool_key, env) ==
    IF env = "no_client"
    THEN Text(<<"Error: ", "No client session for tool ", tool_key>>)
    ELSE IF env = "client_raises" THEN Raises("ToolError")
    ELSE Text(<<"hits">>)

\* lines 2152-2154
CaughtByDispatcher(tool_key, out) ==
    IF out.kind = "raises"
    THEN Text(<<"Error executing tool ", tool_key, ": ", out.exc>>)
    ELSE out

\* the dispatcher with the built-in test moved in front of the forwarding test
DispatchRoute_builtin_first(tool_key, subagent, socket) ==
    IF tool_key \notin available_tools THEN "not found"
    ELSE IF ServerOf(tool_key) = "builtin" THEN "builtin"
    ELSE IF DispatchForwards(tool_key, subagent, socket) THEN "forwarded"
    ELSE "remote"

\* lines 2102-2132: the branch of the dispatcher a call takes, by the order
\* of its tests (lines 2102, 2112-2114, 2122)
DispatchRoute(tool_key, subagent, socket) ==
    IF tool_key \notin available_tools THEN "not found"
    ELSE IF DispatchForwards(tool_key, subagent, socket) THEN "forwarded"
    ELSE IF ServerOf(tool_key) = "builtin" THEN "builtin"
    ELSE "remote"

\* line 2105
NotFoundText(tool_key) ==
    Text(<<"Error: ", "Tool ", tool_key, " not found. Available tools: ", "[...]">>)

\* lines 2099-2154
_execute_mcp_tool(tool_key, args, env, subagent, socket) ==
    LET route == DispatchRoute(tool_key, subagent, socket)
    IN IF route = "not found" THEN NotFoundText(tool_key)
       ELSE IF route = "forwarded" THEN ForwardedText(NameOf(tool_key), env)
       ELSE IF route = "builtin"
       THEN CaughtByDispatcher(tool_key,
                               _execute_builtin_tool(NameOf(tool_key), args, env))
       ELSE CaughtByDispatcher(tool_key, RemoteCall(tool_key, env))

\* what the environment can do to a call
LocalEnvs(tool_name) ==
    IF tool_name = "bash_execute" THEN {"ok", "timeout", "os_error"}
    ELSE IF tool_name = "read_file" THEN {"ok", "file_missing", "os_error"}
    ELSE IF tool_name = "write_file" THEN {"ok", "os_error"}
    ELSE IF tool_name = "webfetch" THEN {"ok", "timeout", "curl_failed"}
    ELSE IF tool_name = "task" THEN {"ok", "os_error"}
    ELSE {"ok"}
RemoteEnvs == {"ok", "no_client", "client_raises"}
ForwardEnvs == {"ok", "no_response", "send_fails", "parent_error"}
DirectNames == BuiltinNames \cup {"edit_file"}

DispatchEnvs(tool_key, subagent, socket) ==
    IF tool_key \notin available_tools THEN {"ok"}
    ELSE IF DispatchForwards(tool_key, subagent, socket) THEN ForwardEnvs
    ELSE IF ServerOf(tool_key) = "builtin" THEN LocalEnvs(NameOf(tool_key))
    ELSE RemoteEnvs

DispatchInit ==
    /\ d_key \in DispatchKeys \cup DirectNames
    /\ d_args \in {"given", "missing"}
    /\ d_subagent \in BOOLEAN
    /\ d_socket \in BOOLEAN
    /\ d_socket => d_subagent
    /\ d_env \in IF d_key \in DirectNames THEN LocalEnvs(d_key)
                 ELSE DispatchEnvs(d_key, d_subagent, d_socket)
    /\ d_key \in DirectNames => ~d_subagent
    /\ d_pc = "called"
    /\ d_out = NoOutput
    /\ d_route = "none"

DispatchIdle ==
    /\ DispatchInit
    /\ d_key = "builtin:read_file"
    /\ d_args = "given"
    /\ d_subagent = FALSE
    /\ d_env = "ok"

\* the model or a subagent's handler calls the dispatcher
DispatcherCall ==
    /\ d_pc = "called"
    /\ d_key \in DispatchKeys
    /\ d_out' = _execute_mcp_tool(d_key, d_args, d_env, d_subagent, d_socket)
    /\ d_route' = DispatchRoute(d_key, d_subagent, d_socket)
    /\ d_pc' = "returned"
    /\ UNCHANGED <<d_key, d_args, d_env, d_subagent, d_socket, not_dvars>>

\* a built-in executor is called by name
ExecutorCall ==
    /\ d_pc = "called"
    /\ d_key \in DirectNames
    /\ d_out' = _execute_builtin_tool(d_key, d_args, d_env)
    /\ d_route' = "direct"
    /\ d_pc' = "returned"
    /\ UNCHANGED <<d_key, d_args, d_env, d_subagent, d_socket, not_dvars>>

DispatchNext == DispatcherCall \/ ExecutorCall

\* the call met one of the failures of the tool layer
CallFailed ==
    \/ d_key \notin available_tools \cup BuiltinNames
    \/ d_env # "ok"
    \/ d_args = "missing" /\ d_key \notin RemoteKeys
           /\ ~(d_key \in DispatchKeys /\ DispatchForwards(d_key, d_subagent, d_socket))

\* C16: every call of the dispatcher or of a built-in executor returns a
\* string and does not raise, and when the call failed (missing argument,
\* missing file, timeout, unknown tool, transport failure) the string starts
\* with "Error: ".
C16_ErrorsAreErrorStrings ==
    d_pc = "returned" =>
        /\ d_out.kind = "text"
        /\ CallFailed => d_out.text[1] = "Error: "

\* C28: the dispatcher takes, in this order, the not-found return for an
\* unregistered key, the forwarding to the parent for a subagent with a
\* control socket and a tool other than task, task_status and task_results,
\* the built-in executor for a tool of origin builtin, and the remote client
\* for every other tool.
C28_RoutingOrder ==
    (d_pc = "returned" /\ d_key \in DispatchKeys) =>
        IF d_key \notin available_tools
        THEN d_route = "not found" /\ d_out = NotFoundText(d_key)
        ELSE IF /\ d_subagent
                /\ d_socket
                /\ NameOf(d_key) \notin {"task", "task_status", "task_results"}
        THEN d_route = "forwarded" /\ d_out = ForwardedText(NameOf(d_key), d_env)
        ELSE IF ServerOf(d_key) = "builtin" THEN d_route = "builtin"
        ELSE d_route = "remote"

\* a subagent with a control socket has called a built-in tool and the call
\* went to the parent; the task tools of the same subagent run locally
C28_Witness ==
    /\ d_pc = "returned"
    /\ d_subagent
    /\ d_socket
    /\ ServerOf(d_key) = "builtin"
    /\ d_key \in available_tools
    /\ NameOf(d_key) \notin excluded_tools
    /\ d_route = "forwarded"

(***************************************************************************)
(* The tool registry and the names shown to the model.  start_mcp_server   *)
(* (lines 1815-1868) registers every tool a server lists under the key     *)
(* "<server_name>:<tool.name>" (lines 1840 and 1852), whatever characters  *)
(* the two names hold; normalize_tool_name (lines 2552-2554) is            *)
(* tool_key.replace(":", "_").  A key is the tuple of its characters.      *)
(***************************************************************************)
ServerNames == {<<"a">>, <<"a", "_", "b">>, <<"f">>}
ListedToolNames == {<<"c">>, <<"b", "_", "c">>, <<"r">>}
BuiltinKeys == {<<"b", "u", "i", "l", "t", "i", "n", ":", "t", "a", "s", "k">>}

\* lines 1840 and 1852
ToolKey(server_name, tool_name) == server_name \o <<":">> \o tool_name

\* lines 2552-2554
normalize_tool_name(tool_key) ==
    [i \in 1..Len(tool_key) |-> IF tool_key[i] = ":" THEN "_" ELSE tool_key[i]]

RegistryInit ==
    /\ registry = BuiltinKeys
    /\ connected = {}

\* lines 1815-1861: a server is connected and the tools it lists are
\* registered
StartMcpServer(server_name, tools) ==
    /\ server_name \notin connected
    /\ connected' = connected \cup {server_name}
    /\ registry' = registry \cup {ToolKey(server_name, t) : t \in tools}
    /\ UNCHANGED not_rvars

RegistryNext ==
    \E srv \in ServerNames, tools \in SUBSET ListedToolNames :
        StartMcpServer(srv, tools)

\* C19: two distinct registered tool keys never have the same normalised
\* name.
C19_NormalisationInjective ==
    \A k1 \in registry : \A k2 \in registry :
        k1 # k2 => normalize_tool_name(k1) # normalize_tool_name(k2)

(***************************************************************************)
(* replace_in_file: BaseMCPAgent._replace_in_file (src/agent.py lines      *)
(* 897-926) and BuiltinToolExecutor.replace_in_file                        *)
(* (builtin_tool_executor.py lines 190-261).  A text is the tuple of its   *)
(* characters.                                                             *)
(***************************************************************************)
MaxContentLen == 3
MaxTextLen == 2

Alphabet == {"a", " "}
Whitespace == {" "}
NoSuchFile == <<"no such file">>
Texts(n) == UNION {[1..k -> Alphabet] : k \in 0..n}

\* str.replace with one replacement only
RECURSIVE str_replace_first(_, _, _)
str_replace_first(content, old, new) ==
    IF Len(content) < Len(old) THEN content
    ELSE IF SubSeq(content, 1, Len(old)) = old
    THEN new \o SubSeq(content, Len(old) + 1, Len(content))
    ELSE <<Head(content)>> \o str_replace_first(Tail(content), old, new)

\* content.replace(old_text, new_text) (agent.py line 914, executor line
\* 250) for a non-empty old: the text is scanned from the left, and after a
\* match the scan goes on behind it
RECURSIVE str_replace(_, _, _)
str_replace(content, old, new) ==
    IF Len(content) < Len(old) THEN content
    ELSE IF SubSeq(content, 1, Len(old)) = old
    THEN new \o str_replace(SubSeq(content, Len(old) + 1, Len(content)), old, new)
    ELSE <<Head(content)>> \o str_replace(Tail(content), old, new)

\* content.count(old_text) (agent.py line 919)
RECURSIVE str_count(_, _)
str_count(content, old) ==
    IF Len(content) < Len(old) THEN 0
    ELSE IF SubSeq(content, 1, Len(old)) = old
    THEN 1 + str_count(SubSeq(content, Len(old) + 1, Len(content)), old)
    ELSE str_count(Tail(content), old)

\* str.strip(): the text without the whitespace at its two ends
RECURSIVE strip(_)
strip(text) ==
    IF text = <<>> THEN text
    ELSE IF Head(text) \in Whitespace THEN strip(Tail(text))
    ELSE IF text[Len(text)] \in Whitespace
    THEN strip(SubSeq(text, 1, Len(text) - 1))
    ELSE text

\* executor lines 233-235: old_text is not in the file and its stripped form is
WhitespaceMismatch(content, old) ==
    strip(old) # <<>> /\ Contains(content, strip(old))

\* replace_in_file without the test for old_text in the file
replace_in_file_unchecked(impl, content, old, new) ==
    IF old = <<>> \/ content = NoSuchFile
    THEN [file |-> content, ok |-> FALSE, reports_count |-> FALSE, count |-> 0,
          text |-> "Error: "]
    ELSE [file |-> str_replace(content, old, new), ok |-> TRUE,
          reports_count |-> impl = "agent",
          count |-> IF impl = "agent" THEN str_count(content, old) ELSE 0,
          text |-> IF impl = "agent" THEN "Successfully replaced n occurrence(s)"
                   ELSE "Successfully replaced text in "]

\* the two functions as one: the file afterwards and the text returned
replace_in_file(impl, content, old, new) ==
    IF old = <<>>
    THEN [file |-> content, ok |-> FALSE, reports_count |-> FALSE, count |-> 0,
          text |-> IF impl = "agent" THEN "Error: No old text provided"
                   ELSE "Error: No old text to replace provided"]
    ELSE IF content = NoSuchFile
    THEN [file |-> content, ok |-> FALSE, reports_count |-> FALSE, count |-> 0,
          text |-> "Error: File not found: "]
    ELSE IF ~Contains(content, old)
    THEN [file |-> content, ok |-> FALSE, reports_count |-> FALSE, count |-> 0,
          text |-> IF impl = "agent" THEN "Error: Text not found in file: "
                   ELSE IF WhitespaceMismatch(content, old)
                   THEN "Error: Text found but whitespace doesn't match in "
                   ELSE "Error: Text to replace not found in "]
    ELSE [file |-> str_replace(content, old, new), ok |-> TRUE,
          reports_count |-> impl = "agent",
          count |-> IF impl = "agent" THEN str_count(content, old) ELSE 0,
          text |-> IF impl = "agent" THEN "Successfully replaced n occurrence(s)"
                   ELSE "Successfully replaced text in "]

NoReplaceOutput == [ok |-> FALSE, text |-> "not called"]

ReplaceInit ==
    /\ file_content \in Texts(MaxContentLen) \cup {NoSuchFile}
    /\ e_impl \in {"agent", "executor"}
    /\ e_old \in Texts(MaxTextLen)
    /\ e_new \in Texts(MaxTextLen)
    /\ e_pc = "called"
    /\ e_out = NoReplaceOutput
    /\ e_before = file_content
    /\ e_mid = file_content
    /\ e_again = NoReplaceOutput

ReplaceIdle ==
    /\ ReplaceInit
    /\ file_content = NoSuchFile
    /\ e_impl = "agent"
    /\ e_old = <<>>
    /\ e_new = <<>>

ReplaceInFile ==
    /\ e_pc = "called"
    /\ LET r == replace_in_file(e_impl, file_content, e_old, e_new)
       IN /\ file_content' = r.file
          /\ e_out' = [ok |-> r.ok, text |-> r.text,
                       reports_count |-> r.reports_count, count |-> r.count]
    /\ e_pc' = "returned"
    /\ e_mid' = file_content'
    /\ UNCHANGED <<e_impl, e_old, e_new, e_before, e_again, not_evars>>

\* the same call once more, on the file as the first call left it
ReplaceInFileAgain ==
    /\ e_pc = "returned"
    /\ LET r == replace_in_file(e_impl, file_content, e_old, e_new)
       IN /\ file_content' = r.file
          /\ e_again' = [ok |-> r.ok, text |-> r.text,
                         reports_count |-> r.reports_count, count |-> r.count]
    /\ e_pc' = "returned again"
    /\ UNCHANGED <<e_impl, e_old, e_new, e_out, e_before, e_mid, not_evars>>

ReplaceNext == ReplaceInFile \/ ReplaceInFileAgain

(***************************************************************************)
(* Properties of replace_in_file                                           *)
(***************************************************************************)
OccursAt(content, old, p) ==
    /\ p + Len(old) - 1 <= Len(content)
    /\ SubSeq(content, p, p + Len(old) - 1) = old

\* P is the set of places where old is replaced when the text is read from
\* the left: its members are occurrences that do not overlap, and every
\* occurrence starts inside one of them, at or after its first character
LeftmostMatches(content, old, P) ==
    /\ \A p \in P : OccursAt(content, old, p)
    /\ \A p \in P : \A q \in P : q < p => q + Len(old) <= p
    /\ \A q \in 1..Len(content) :
          OccursAt(content, old, q) =>
              \E p \in P : p <= q /\ q < p + Len(old)

\* content from position i on, with new in the place of old at the places P
RECURSIVE Splice(_, _, _, _, _)
Splice(content, old, new, P, i) ==
    IF i > Len(content) THEN <<>>
    ELSE IF i \in P THEN new \o Splice(content, old, new, P, i + Len(old))
    ELSE <<content[i]>> \o Splice(content, old, new, P, i + 1)

ReplaceDone == e_pc = "returned" /\ e_out.ok

\* C20 as stated: after a successful call the file is the old file with the
\* first occurrence of old_text replaced and everything else as it was.
C20_OnlyFirstReplaced ==
    ReplaceDone =>
        \E p \in 1..Len(e_before) :
            /\ OccursAt(e_before, e_old, p)
            /\ \A q \in 1..(p - 1) : ~OccursAt(e_before, e_old, q)
            /\ file_content = Splice(e_before, e_old, e_new, {p}, 1)

\* C20: after a successful call every occurrence of old_text, taken from
\* the left without overlap, has been replaced and nothing else has changed,
\* and a reported count is the number of replacements made.
C20_AllReplacedAndCounted ==
    ReplaceDone =>
        \E P \in SUBSET (1..Len(e_before)) :
            /\ P # {}
            /\ LeftmostMatches(e_before, e_old, P)
            /\ file_content = Splice(e_before, e_old, e_new, P, 1)
            /\ e_out.reports_count => e_out.count = Cardinality(P)
            /\ e_out.reports_count = (e_impl = "agent")

\* C20 witness: a call that replaced two occurrences and reported two
C20_Witness ==
    /\ ReplaceDone
    /\ e_out.reports_count
    /\ e_out.count = 2
    /\ file_content # e_before

ReplacedTwice == e_pc = "returned again" /\ e_out.ok

TextNotFound(out) ==
    /\ ~out.ok
    /\ out.text \in {"Error: Text not found in file: ",
                     "Error: Text to replace not found in "}

\* C21 as stated: after a successful call with old_text different from
\* new_text the same call again returns the text-not-found error and leaves
\* the file as it was; with old_text equal to new_text no call changes the
\* file.
C21_SecondCallNotFound ==
    ReplacedTwice =>
        /\ e_old # e_new => TextNotFound(e_again) /\ file_content = e_mid
        /\ e_old = e_new => file_content = e_before /\ e_mid = e_before

\* C21: after a successful call the same call again fails and leaves the
\* file as it was exactly when the modified file no longer holds old_text,
\* and its error is the text-not-found one unless the executor finds the
\* stripped old_text in the file; when the modified file still holds
\* old_text the second call succeeds and replaces every occurrence once
\* more; with old_text equal to new_text no call changes the file.
C21_SecondCallFollowsModifiedFile ==
    ReplacedTwice =>
        /\ ~Contains(e_mid, e_old) =>
              /\ ~e_again.ok
              /\ file_content = e_mid
              /\ TextNotFound(e_again) <=>
                    ~(e_impl = "executor" /\ WhitespaceMismatch(e_mid, e_old))
        /\ Contains(e_mid, e_old) =>
              /\ e_again.ok
              /\ \E P \in SUBSET (1..Len(e_mid)) :
                    /\ P # {}
                    /\ LeftmostMatches(e_mid, e_old, P)
                    /\ file_content = Splice(e_mid, e_old, e_new, P, 1)
        /\ e_old = e_new => file_content = e_before /\ e_mid = e_before

\* C21 witness: old_text differs from new_text, the first call succeeded and
\* the second returned the text-not-found error
C21_Witness ==
    /\ ReplacedTwice
    /\ e_old # e_new
    /\ TextNotFound(e_again)
    /\ e_mid # e_before

(***************************************************************************)
(* write_file and read_file: BaseMCPAgent._read_file and _write_file        *)
(* (src/agent.py lines 788-835) and BuiltinToolExecutor.read_file and       *)
(* write_file (builtin_tool_executor.py lines 54-130).  A text is the tuple *)
(* of its characters; "\n" ends a line.                                     *)
(***************************************************************************)
MaxFileLen == 3
MaxOffset == 3

FileAlphabet == {"a", " ", "\n"}
FileWhitespace == {" ", "\n"}
\* an argument that the call does not give (args.get takes its default)
NoArg == 0 - 1
FileTexts(n) == UNION {[1..k -> FileAlphabet] : k \in 0..n}

\* f.readlines(): the lines of the text, each with the "\n" that ends it
RECURSIVE readlines(_)
readlines(text) ==
    IF text = <<>> THEN <<>>
    ELSE LET ends == {i \in 1..Len(text) : text[i] = "\n"}
             k == IF ends = {} THEN Len(text)
                  ELSE CHOOSE i \in ends : \A j \in ends : i <= j
         IN <<SubSeq(text, 1, k)>> \o readlines(SubSeq(text, k + 1, Len(text)))

\* str.rstrip(): the text without the whitespace at its end
RECURSIVE rstrip(_)
rstrip(text) ==
    IF text = <<>> THEN text
    ELSE IF text[Len(text)] \in FileWhitespace
    THEN rstrip(SubSeq(text, 1, Len(text) - 1))
    ELSE text

Digits == <<"0", "1", "2", "3", "4", "5", "6", "7", "8", "9">>

\* f"{n:6d}→" (agent.py line 806) and f"{n:5d}→" (executor line 73), for
\* the one-digit numbers the bounded files need
NumberWidth(impl) == IF impl = "agent" THEN 6 ELSE 5
LinePrefix(impl, n) ==
    [i \in 1..NumberWidth(impl) |->
        IF i < NumberWidth(impl) THEN " " ELSE Digits[n + 1]] \o <<"→">>

\* "\n".join(lines)
RECURSIVE join(_)
join(lines) ==
    IF lines = <<>> THEN <<>>
    ELSE IF Len(lines) = 1 THEN lines[1]
    ELSE lines[1] \o <<"\n">> \o join(Tail(lines))

Min(a, b) == IF a < b THEN a ELSE b
Max(a, b) == IF a > b THEN a ELSE b

\* agent.py lines 801-808: offset defaults to 1 and is turned into an index
\* from 0
_read_file_lines(lines, offset, limit) ==
    LET off == IF offset = NoArg THEN 1 ELSE offset
        start_idx == Max(0, off - 1)
        end_idx == IF limit = NoArg THEN Len(lines)
                   ELSE Min(Len(lines), start_idx + limit)
    IN join([j \in 1..Max(0, end_idx - start_idx) |->
                LinePrefix("agent", start_idx + j)
                    \o rstrip(lines[start_idx + j])])

\* executor lines 64-75: offset defaults to 0, lines[offset:] drops that many
\* lines, and the numbers start at offset + 1
read_file_lines(lines, offset, limit) ==
    LET off == IF offset = NoArg THEN 0 ELSE offset
        rest == IF off > 0 THEN SubSeq(lines, off + 1, Len(lines)) ELSE lines
        kept == IF limit = NoArg THEN rest
                ELSE SubSeq(rest, 1, Min(limit, Len(rest)))
    IN join([j \in 1..Len(kept) |->
                LinePrefix("executor", off + j) \o rstrip(kept[j])])

\* read_file of either implementation on the file as it is
read_file(impl, file, offset, limit) ==
    IF file = NoSuchFile THEN [ok |-> FALSE, text |-> "Error: File not found: "]
    ELSE [ok |-> TRUE,
          text |-> IF impl = "agent"
                   THEN _read_file_lines(readlines(file), offset, limit)
                   ELSE read_file_lines(readlines(file), offset, limit)]

\* write_file of either implementation: the file afterwards and the text
write_file(impl, file, content, env) ==
    IF env = "ok"
    THEN [file |-> content, ok |-> TRUE,
          text |-> "Successfully wrote n characters to ", count |-> Len(content)]
    ELSE [file |-> file, ok |-> FALSE, count |-> 0,
          text |-> IF impl = "agent" THEN "Error writing file: "
                   ELSE "Error: Permission denied writing to file: "]

NoFileOutput == [ok |-> FALSE, text |-> "not called"]

FileInit ==
    /\ disk \in {NoSuchFile, <<"a">>}
    /\ rw_impl \in {"agent", "executor"}
    /\ rw_content \in FileTexts(MaxFileLen)
    /\ rw_offset \in (0..MaxOffset) \cup {NoArg}
    /\ rw_limit \in {NoArg, 0, 1}
    /\ rw_env \in {"ok", "denied"}
    /\ rw_pc = "start"
    /\ rw_written = NoFileOutput
    /\ rw_out = NoFileOutput

FileIdle ==
    /\ disk = NoSuchFile
    /\ rw_impl = "agent"
    /\ rw_content = <<>>
    /\ rw_offset = NoArg
    /\ rw_limit = NoArg
    /\ rw_env = "ok"
    /\ rw_pc = "start"
    /\ rw_written = NoFileOutput
    /\ rw_out = NoFileOutput

WriteFile ==
    /\ rw_pc = "start"
    /\ LET w == write_file(rw_impl, disk, rw_content, rw_env)
       IN /\ disk' = w.file
          /\ rw_written' = [ok |-> w.ok, text |-> w.text, count |-> w.count]
    /\ rw_pc' = "written"
    /\ UNCHANGED <<rw_impl, rw_content, rw_offset, rw_limit, rw_env, rw_out,
                   not_wvars>>

ReadFile ==
    /\ rw_pc = "written"
    /\ rw_out' = read_file(rw_impl, disk, rw_offset, rw_limit)
    /\ rw_pc' = "read"
    /\ UNCHANGED <<disk, rw_impl, rw_content, rw_offset, rw_limit, rw_env,
                   rw_written, not_wvars>>

FileNext == WriteFile \/ ReadFile

(***************************************************************************)
(* Properties of write_file and read_file                                  *)
(***************************************************************************)
\* the lines of a text without the "\n" that ends them
LinesOf(text) ==
    LET ls == readlines(text)
    IN [i \in 1..Len(ls) |->
          IF ls[i][Len(ls[i])] = "\n" THEN SubSeq(ls[i], 1, Len(ls[i]) - 1)
          ELSE ls[i]]

WrittenAndRead == rw_pc = "read" /\ rw_written.ok /\ rw_limit = NoArg

\* the lines of the written content from line k on, each behind its number
NumberedFrom(k) ==
    LET ls == LinesOf(rw_content)
    IN join([j \in 1..Max(0, Len(ls) - k + 1) |->
                LinePrefix(rw_impl, k + j - 1) \o ls[k + j - 1]])

\* C22: after write_file(path, c), read_file(path, offset=k) with no limit
\* returns the lines of c from line k on, in order, each behind its 1-based
\* number; with offset=1 these are all lines of c.
C22_ReadReturnsWrittenLines ==
    (WrittenAndRead /\ rw_offset \in 1..MaxOffset) =>
        /\ rw_out.ok
        /\ rw_out.text = NumberedFrom(rw_offset)

(***************************************************************************)
(* The display.  interactive_chat prints each chunk of the stream as it    *)
(* arrives (lines 2705-2729) and is suspended between chunks; meanwhile    *)
(* _monitor_task prints what it reads from a child's stdout (lines         *)
(* 1266-1283) and _process_subagent_message prints a child's display       *)
(* messages (lines 1421-1431).  All of them call print on the same         *)
(* terminal; nothing else orders them.                                     *)
(***************************************************************************)
MaxPieces == 2

\* texts a source can hand over in one piece: with and without a line end
Pieces == {<<"x">>, <<"x", "\n">>}
PieceSeqs(n) == UNION {[1..k -> Pieces] : k \in 0..n}

\* str.replace("\n", with), character by character
RECURSIVE replace_newline(_, _)
replace_newline(text, with) ==
    IF text = <<>> THEN <<>>
    ELSE (IF Head(text) = "\n" THEN with ELSE <<Head(text)>>)
             \o replace_newline(Tail(text), with)

\* print(text, end=""): the characters of text, marked with who prints them
Printed(source, text) == [i \in 1..Len(text) |-> [source |-> source, ch |-> text[i]]]

DisplayInit ==
    /\ screen = <<>>
    /\ p_stream \in PieceSeqs(MaxPieces)
    /\ p_stdout \in PieceSeqs(MaxPieces)
    /\ p_messages \in PieceSeqs(1)
    /\ p_pc = "streaming"

DisplayIdle ==
    /\ screen = <<>>
    /\ p_stream = <<>>
    /\ p_stdout = <<>>
    /\ p_messages = <<>>
    /\ p_pc = "prompt"

\* lines 2720-2723: one chunk of the main model's stream
DisplayChunk ==
    /\ p_pc = "streaming"
    /\ p_stream # <<>>
    /\ screen' = screen \o Printed("main", replace_newline(Head(p_stream), <<"\r", "\n">>))
    /\ p_stream' = Tail(p_stream)
    /\ UNCHANGED <<p_stdout, p_messages, p_pc, not_pvars>>

\* lines 2730-2739: the stream is exhausted; print() ends the line
DisplayStreamEnds ==
    /\ p_pc = "streaming"
    /\ p_stream = <<>>
    /\ screen' = screen \o Printed("main", <<"\n">>)
    /\ p_pc' = "prompt"
    /\ UNCHANGED <<p_stream, p_stdout, p_messages, not_pvars>>

\* lines 1266-1281: the monitor prints one read of a child's stdout behind
\* the subagent mark, with end=''; the monitor runs while interactive_chat
\* is suspended between two chunks
MonitorPrints ==
    /\ p_pc = "streaming"
    /\ p_stdout # <<>>
    /\ screen' = screen \o Printed("subagent",
                     <<"[SUBAGENT] ">> \o replace_newline(Head(p_stdout), <<"\n", "\r">>))
    /\ p_stdout' = Tail(p_stdout)
    /\ UNCHANGED <<p_stream, p_messages, p_pc, not_pvars>>

\* lines 1421-1431: a display_message of a child, printed with its line end
DisplayMessagePrinted ==
    /\ p_pc = "streaming"
    /\ p_messages # <<>>
    /\ screen' = screen \o Printed("subagent", Head(p_messages) \o <<"\n">>)
    /\ p_messages' = Tail(p_messages)
    /\ UNCHANGED <<p_stream, p_stdout, p_pc, not_pvars>>

DisplayNext ==
    \/ DisplayChunk
    \/ DisplayStreamEnds
    \/ MonitorPrints
    \/ DisplayMessagePrinted

(***************************************************************************)
(* Properties of the display                                               *)
(***************************************************************************)
\* the positions of the screen that are on the same line as position i
SameLine(i, j) ==
    \A k \in (IF i < j THEN i ELSE j)..((IF i < j THEN j ELSE i) - 1) :
        screen[k].ch # "\n"

Visible(i) == screen[i].ch \notin {"\n", "\r"}

\* C24: every displayed line consists of characters from a single source:
\* subagent output is never put into a line the main model is streaming, and
\* main-model output is never put into a subagent line.
C24_LinesFromOneSource ==
    \A i \in 1..Len(screen) : \A j \in 1..Len(screen) :
        (Visible(i) /\ Visible(j) /\ SameLine(i, j)) =>
            screen[i].source = screen[j].source

(***************************************************************************)
(* Cancelling.  The controller of interactive_chat, the children started   *)
(* by task calls with their control sockets, and a keep-alive wrapper      *)
(* together.  A task call is made by the completion in flight; when the    *)
(* completion is cancelled inside create_subprocess_exec (line 1206) the   *)
(* call is abandoned before its record is stored, and `await current_task` *)
(* (line 2614, line 2678) returns only after that.                         *)
(***************************************************************************)
KaArmed ==
    /\ KaInit
    /\ ka_handler
    /\ ka_interval = 3
    /\ tool_duration \in {0, MaxToolTime}

\* the model calls task while its completion is in flight (one child is
\* followed)
CancelSpawn(description, prompt) ==
    /\ ipc = "awaiting"
    /\ task_counter + 1 \in ForwardingTasks
    /\ TaskDecide(description, prompt)

\* line 1206 has returned: the record is stored (lines 1214-1226)
CancelRegister == ipc = "awaiting" /\ TaskRegister

\* CancelledError reaches _task at line 1206; `except Exception` (line 1245)
\* does not catch it and the call ends without a record
SpawnAbandoned ==
    /\ ipc # "awaiting"
    /\ spawning # NoSpawn
    /\ spawning' = NoSpawn
    /\ UNCHANGED <<running_tasks, task_counter, current_batch_id, batch_counter,
                   now, process, monitor_pc, stdout_summaries, ticks,
                   task_files, registered, not_tvars>>

\* lines 2664-2674, once the cancelled completion has been unwound
CancelSend(user_input) == spawning = NoSpawn /\ SendUserMessage(user_input)

CancelNext ==
    \/ \E u \in {Str("hello", 5)} : CancelSend(u)
    \/ RequestCancelled
    \/ \E r \in PlainResponses : PlainResponse(r)
    \/ \E c \in {<<Str("hi", 2)>>} : StreamStarts(c)
    \/ \E k \in {"none", "esc"} : StreamChunk(k)
    \/ StreamEnds
    \/ RaiseInterrupt
    \/ \E d \in Descriptions, pr \in Prompts : CancelSpawn(d, pr)
    \/ CancelRegister
    \/ SpawnAbandoned
    \/ \E t \in ForwardingTasks : ChildExit(t)
    \/ \E t \in ForwardingTasks : MonitorTaskCompletes(t, NoFile)
    \/ \E t \in ForwardingTasks : ChildConnects(t)
    \/ \E t \in ForwardingTasks : CommAccept(t)
    \/ KaLoop
    \/ KaTick
    \/ \E text \in ToolTexts : ToolFinishes(text)
    \/ KaWaitReturns
    \/ KaTimeout
    \/ KaRaiseFlag

(***************************************************************************)
(* Properties of cancelling                                                *)
(***************************************************************************)
\* the step in which the controller gives up the completion in flight:
\* the cancelled request (lines 2679-2683) or the interrupted stream (lines
\* 2708-2718)
ChatCancels ==
    \/ ipc = "awaiting" /\ printed' = "Request cancelled"
    \/ ipc = "streaming" /\ stream_interrupted'

\* the step in which the wrapper finds the flag raised (line 2237)
KaSeesFlag ==
    /\ ka_pc = "loop" /\ ka_pc' # "loop"
    /\ ka_handler /\ ka_flag /\ tool_state = "pending"

\* C25: the step that cancels on ESC or on the interrupted flag ends the
\* completion in flight, or cancels the wrapped tool and ends the wrapper,
\* and leaves running_tasks, the child processes with their monitors, and
\* the control sockets with what is in them as they were.
C25_CancelLeavesChildren ==
    [][/\ (ChatCancels \/ KaSeesFlag) =>
             UNCHANGED <<running_tasks, process, monitor_pc, task_files, conn,
                         comm_pc, to_parent, to_child, child_pc>>
       /\ ChatCancels => (current_task' = "none" /\ ipc' = "input")
       /\ KaSeesFlag => /\ tool_state' = "cancelled"
                        /\ ka_pc' = "returned"
                        /\ ka_result' = ToolCancelled]_vars

\* C25 witness: a request was cancelled and the wrapper was cancelled while
\* a child is running with its control socket open
C25_Witness ==
    /\ printed = "Request cancelled"
    /\ tool_state = "cancelled"
    /\ 1 \in DOMAIN running_tasks
    /\ ~running_tasks[1].completed
    /\ process[1] = "running"
    /\ conn[1] = "open"

(***************************************************************************)
(* The record of a child and its control socket.  The record is written    *)
(* by _monitor_task (lines 1303-1320), by _process_subagent_message (lines *)
(* 1421-1429) from inside the receive loop of                              *)
(* _handle_subagent_communication (lines 1377-1392), and by                *)
(* get_pending_subagent_messages (lines 1337-1344).  The receive loop      *)
(* tests `completed` before each recv, not after it.                       *)
(***************************************************************************)
MaxCtlMsgs == 2

\* the child whose record is followed
RecordTask == 1
NoPayload == "no result envelope"
ResultPayloads == {"findings", "summary"}

DisplayEnvelope == [type |-> "display_message", message |-> "working"]
ResultEnvelope(payload) == [type |-> "result", payload |-> payload]
CtlMessages == {DisplayEnvelope} \cup {ResultEnvelope(pl) : pl \in ResultPayloads}

\* line 1377: the condition of the receive loop
ReceiveLoopCond(rt) == RecordTask \in DOMAIN rt /\ ~rt[RecordTask].completed

\* lines 1421-1429: what _process_subagent_message makes of the buffer; a
\* type it has no branch for leaves it alone
BufferAfterMessage(rt, buf, message) ==
    IF message.type = "display_message" /\ RecordTask \in DOMAIN rt
    THEN Append(buf, message.message)
    ELSE buf

\* lines 1386-1392: every complete line of the data received, in order
RECURSIVE BufferAfterLines(_, _, _)
BufferAfterLines(rt, buf, lines) ==
    IF lines = <<>> THEN buf
    ELSE BufferAfterLines(rt, BufferAfterMessage(rt, buf, Head(lines)), Tail(lines))

\* the payload of the last result envelope among the lines, if any
RECURSIVE LastPayload(_, _)
LastPayload(seen, lines) ==
    IF lines = <<>> THEN seen
    ELSE LastPayload(IF Head(lines).type = "result" THEN Head(lines).payload
                     ELSE seen, Tail(lines))

RecordInit ==
    /\ ctl_inbox = <<>>
    /\ ctl_sent = 0
    /\ ctl_pc = "accepting"
    /\ display_buf = <<>>
    /\ ctl_payload = NoPayload

\* the child writes a line to the control socket
CtlChildSends(message) ==
    /\ RecordTask \in DOMAIN process
    /\ process[RecordTask] = "running"
    /\ ctl_sent < MaxCtlMsgs
    /\ ctl_sent' = ctl_sent + 1
    /\ ctl_inbox' = Append(ctl_inbox, message)
    /\ UNCHANGED <<ctl_pc, display_buf, ctl_payload, not_mvars>>

\* lines 1357-1377: the connection is accepted and the loop condition is
\* evaluated for the first time
CtlAccept ==
    /\ ctl_pc = "accepting"
    /\ RecordTask \in DOMAIN running_tasks
    /\ ctl_pc' = IF ReceiveLoopCond(running_tasks) THEN "in recv" ELSE "done"
    /\ UNCHANGED <<ctl_inbox, ctl_sent, display_buf, ctl_payload, not_mvars>>

\* lines 1380-1392: recv returns what the child has written, every line of
\* it is processed, and the loop condition is evaluated again
CtlRecvReturns ==
    /\ ctl_pc = "in recv"
    /\ ctl_inbox # <<>>
    /\ display_buf' = BufferAfterLines(running_tasks, display_buf, ctl_inbox)
    /\ ctl_payload' = LastPayload(ctl_payload, ctl_inbox)
    /\ ctl_inbox' = <<>>
    /\ ctl_pc' = IF ReceiveLoopCond(running_tasks) THEN "in recv" ELSE "done"
    /\ UNCHANGED <<ctl_sent, not_mvars>>

\* lines 1381-1382 and 1394-1396: recv returns no data after the child has
\* closed its end, or times out after a second
CtlRecvEmpty ==
    /\ ctl_pc = "in recv"
    /\ ctl_inbox = <<>>
    /\ ctl_pc' = IF process[RecordTask] = "running" /\ ReceiveLoopCond(running_tasks)
                 THEN "in recv" ELSE "done"
    /\ UNCHANGED <<ctl_inbox, ctl_sent, display_buf, ctl_payload, not_mvars>>

\* lines 1337-1344
get_pending_subagent_messages ==
    /\ RecordTask \in DOMAIN running_tasks
    /\ display_buf # <<>>
    /\ display_buf' = <<>>
    /\ UNCHANGED <<ctl_inbox, ctl_sent, ctl_pc, ctl_payload, not_mvars>>

RecordNext ==
    \/ \E d \in Descriptions, pr \in Prompts : FwdSpawn(d, pr)
    \/ TaskRegister
    \/ \E t \in ForwardingTasks : ChildExit(t)
    \/ \E t \in ForwardingTasks, f \in FileResults \cup {NoFile} :
          MonitorTaskCompletes(t, f)
    \/ \E c \in BOOLEAN : TaskResults(FALSE, c)
    \/ \E msg \in CtlMessages : CtlChildSends(msg)
    \/ CtlAccept
    \/ CtlRecvReturns
    \/ CtlRecvEmpty
    \/ get_pending_subagent_messages

(***************************************************************************)
(* Properties of the record                                                *)
(***************************************************************************)
\* C26: once the record has completed=true, no step changes any of its
\* fields or its message buffer; it can only be dropped from running_tasks.
C26_CompletedRecordFrozen ==
    [][(RecordTask \in DOMAIN running_tasks /\ running_tasks[RecordTask].completed) =>
          \/ RecordTask \notin DOMAIN running_tasks'
          \/ /\ running_tasks'[RecordTask] = running_tasks[RecordTask]
             /\ display_buf' = display_buf]_vars

\* C29: when the control handler has processed a result envelope of the
\* child, the record holds its payload as result once the child has exited
\* and the record is completed.
C29_ResultEnvelopeStored ==
    (/\ ctl_payload # NoPayload
     /\ RecordTask \in DOMAIN running_tasks
     /\ running_tasks[RecordTask].completed) =>
        running_tasks[RecordTask].result = ctl_payload

(***************************************************************************)
(* InterruptibleInput.get_input (lines 393-463) with the ESC binding of    *)
(* _setup_prompt_toolkit (lines 382-387).  The user types a line and       *)
(* Enter, or presses ^C, ^D or ESC at the empty prompt; after an ESC that  *)
(* does nothing the user goes on to type a line.                           *)
(***************************************************************************)
InputKeys == {"line", "ctrl_c", "ctrl_d", "esc"}
ReturnsText == [kind |-> "returns", value |-> "text"]
ReturnsNone == [kind |-> "returns", value |-> "None"]
RaisesEOFError == [kind |-> "raises", value |-> "EOFError"]
NotReturned == [kind |-> "none", value |-> "none"]

\* input(prompt_text) with the handler around it (lines 403-407 and
\* 459-463): only KeyboardInterrupt is caught
builtin_input(key, flag) ==
    IF key = "ctrl_c" THEN [flag |-> TRUE, ret |-> ReturnsNone]
    ELSE IF key = "ctrl_d" THEN [flag |-> flag, ret |-> RaisesEOFError]
    ELSE [flag |-> flag, ret |-> ReturnsText]

\* the prompt of prompt_toolkit (lines 409-448): what it raises or returns.
\* The ESC binding is handed over only with allow_escape_interrupt (lines
\* 427 and 443); it sets the flag and ends the prompt with KeyboardInterrupt
\* (lines 385-387)
prompt_toolkit(key, allow, flag) ==
    IF key = "ctrl_c" THEN [flag |-> flag, exc |-> "KeyboardInterrupt"]
    ELSE IF key = "ctrl_d" THEN [flag |-> flag, exc |-> "EOFError"]
    ELSE IF key = "esc" /\ allow THEN [flag |-> TRUE, exc |-> "KeyboardInterrupt"]
    ELSE [flag |-> flag, exc |-> "none"]

\* lines 401-463: KeyboardInterrupt and EOFError of the prompt are caught
\* (lines 450-455); any other error falls back to input() (lines 456-463)
get_input(available, allow, prompt_error, key, flag) ==
    IF ~available THEN builtin_input(key, flag)
    ELSE IF prompt_error THEN builtin_input(key, flag)
    ELSE LET r == prompt_toolkit(key, allow, flag)
         IN IF r.exc = "KeyboardInterrupt" THEN [flag |-> TRUE, ret |-> ReturnsNone]
            ELSE IF r.exc = "EOFError" THEN [flag |-> r.flag, ret |-> ReturnsNone]
            ELSE [flag |-> r.flag, ret |-> ReturnsText]

InputInit ==
    /\ g_available \in BOOLEAN
    /\ g_allow \in BOOLEAN
    /\ g_in_loop \in BOOLEAN
    /\ g_prompt_error \in BOOLEAN
    /\ g_key \in InputKeys
    /\ g_flag_before \in BOOLEAN
    /\ g_flag = g_flag_before
    /\ g_pc = "called"
    /\ g_ret = NotReturned

InputIdle ==
    /\ g_available = TRUE
    /\ g_allow = FALSE
    /\ g_in_loop = TRUE
    /\ g_prompt_error = FALSE
    /\ g_key = "line"
    /\ g_flag_before = FALSE
    /\ g_flag = FALSE
    /\ g_pc = "called"
    /\ g_ret = NotReturned

\* the call, in a thread of its own (lines 416-437) or directly (lines
\* 439-448): the two branches hand the same arguments to the prompt
GetInput ==
    /\ g_pc = "called"
    /\ LET r == get_input(g_available, g_allow, g_prompt_error, g_key, g_flag)
       IN /\ g_flag' = r.flag
          /\ g_ret' = r.ret
    /\ g_pc' = "returned"
    /\ UNCHANGED <<g_available, g_allow, g_in_loop, g_prompt_error, g_key,
                   g_flag_before, not_gvars>>

InputNext == GetInput

(***************************************************************************)
(* Properties of get_input                                                 *)
(***************************************************************************)
\* C27: get_input raises the flag only on ^C or on ESC with
\* allow_escape_interrupt; ESC without it and ^D leave the flag as it was,
\* and on ^D the call returns None.
C27_FlagOnlyOnInterrupt ==
    g_pc = "returned" =>
        /\ (g_flag /\ ~g_flag_before) =>
              (g_key = "ctrl_c" \/ (g_key = "esc" /\ g_allow))
        /\ (g_key = "esc" /\ ~g_allow) => g_flag = g_flag_before
        /\ g_key = "ctrl_d" => (g_flag = g_flag_before /\ g_ret = ReturnsNone)

(***************************************************************************)
(* The resources of one record.  _task (lines 1130-1247) makes the         *)
(* listening socket (lines 1185-1188) and the temp task file (lines        *)
(* 1190-1199), awaits create_subprocess_exec (line 1206), registers the    *)
(* record and starts _monitor_task and _handle_subagent_communication      *)
(* (lines 1214-1232); any exception ends in the handler of lines           *)
(* 1245-1247.  The child may connect to the socket and may write its       *)
(* result file before it exits.                                            *)
(***************************************************************************)
SpawnFailures == {"none", "socket", "tempfile", "dump"}

ResourceInit ==
    /\ u_pc = "start"
    /\ u_ret = "none"
    /\ u_registered = FALSE
    /\ u_completed = FALSE
    /\ u_result = NoResult
    /\ u_process = "none"
    /\ u_task_file = FALSE
    /\ u_result_file = "absent"
    /\ u_listen = "none"
    /\ u_client = "none"
    /\ u_connect = "no"
    /\ u_monitor = "none"
    /\ u_comm = "none"

\* lines 1130-1206 up to the await, with the handler of lines 1245-1247:
\* failure names the statement that raises (socket.socket/bind/listen,
\* NamedTemporaryFile, json.dump) or "none"
TaskCreatesResources(failure) ==
    /\ u_pc = "start"
    /\ u_listen' = IF failure = "socket" THEN u_listen ELSE "open"
    /\ u_task_file' = (failure \in {"none", "dump"})
    /\ IF failure = "none"
       THEN u_pc' = "spawning" /\ u_ret' = u_ret
       ELSE u_pc' = "returned" /\ u_ret' = "error"
    /\ UNCHANGED <<u_registered, u_completed, u_result, u_process, u_result_file,
                   u_client, u_connect, u_monitor, u_comm, not_uvars>>

\* lines 1206-1243: create_subprocess_exec returns the process and the
\* record is stored, or it raises (lines 1245-1247)
SubprocessCreated(ok) ==
    /\ u_pc = "spawning"
    /\ u_pc' = "returned"
    /\ IF ok
       THEN /\ u_registered' = TRUE
            /\ u_process' = "running"
            /\ u_monitor' = "polling"
            /\ u_comm' = "accepting"
            /\ u_ret' = "started"
       ELSE /\ u_ret' = "error"
            /\ UNCHANGED <<u_registered, u_process, u_monitor, u_comm>>
    /\ UNCHANGED <<u_completed, u_result, u_task_file, u_result_file, u_listen,
                   u_client, u_connect, not_uvars>>

\* execute_task_subprocess, lines 3031-3040: the child connects to
\* comm_port, or finds the port closed and goes on without a socket
ResourceChildConnects ==
    /\ u_process = "running"
    /\ u_connect = "no"
    /\ u_connect' = IF u_listen = "open" THEN "pending" ELSE "refused"
    /\ UNCHANGED <<u_pc, u_ret, u_registered, u_completed, u_result, u_process,
                   u_task_file, u_result_file, u_listen, u_client, u_monitor,
                   u_comm, not_uvars>>

\* the child leaves a result file, whole or cut short
ChildWritesResult(kind) ==
    /\ u_process = "running"
    /\ u_result_file = "absent"
    /\ kind \in {"valid", "corrupt"}
    /\ u_result_file' = kind
    /\ UNCHANGED <<u_pc, u_ret, u_registered, u_completed, u_result, u_process,
                   u_task_file, u_listen, u_client, u_connect, u_monitor, u_comm,
                   not_uvars>>

ResourceChildExits ==
    /\ u_process = "running"
    /\ u_process' = "exited"
    /\ UNCHANGED <<u_pc, u_ret, u_registered, u_completed, u_result, u_task_file,
                   u_result_file, u_listen, u_client, u_connect, u_monitor, u_comm,
                   not_uvars>>

\* lines 1261-1286: process.stdout.read raises something other than
\* TimeoutError; the handler of lines 1333-1335 ends the monitor
MonitorReadFails ==
    /\ u_monitor = "polling"
    /\ u_process = "running"
    /\ u_monitor' = "failed"
    /\ UNCHANGED <<u_pc, u_ret, u_registered, u_completed, u_result, u_process,
                   u_task_file, u_result_file, u_listen, u_client, u_connect,
                   u_comm, not_uvars>>

\* lines 1307-1320: the result and what is left of the result file
CollectResult(result_file) ==
    IF result_file = "valid" THEN [result |-> "findings", file |-> "absent"]
    ELSE IF result_file = "corrupt"
    THEN [result |-> "Error collecting result", file |-> "corrupt"]
    ELSE [result |-> "Result file not found", file |-> "absent"]

\* lines 1263-1264 and 1288-1331: the monitor finds the child exited; an
\* error of communicate() is printed (lines 1300-1301) and the monitor goes on
MonitorFinishes(communicate_ok) ==
    /\ u_monitor = "polling"
    /\ u_process = "exited"
    /\ u_completed' = TRUE
    /\ u_result' = CollectResult(u_result_file).result
    /\ u_result_file' = CollectResult(u_result_file).file
    /\ u_task_file' = FALSE
    /\ u_monitor' = "done"
    /\ UNCHANGED <<u_pc, u_ret, u_registered, u_process, u_listen, u_client,
                   u_connect, u_comm, not_uvars>>

\* _task_results with clear_after_retrieval (lines 1667-1671) removes the
\* completed record from running_tasks
ResourceRetrieved ==
    /\ u_registered
    /\ u_completed
    /\ u_registered' = FALSE
    /\ UNCHANGED <<u_pc, u_ret, u_completed, u_result, u_process, u_task_file,
                   u_result_file, u_listen, u_client, u_connect, u_monitor, u_comm,
                   not_uvars>>

\* lines 1363 and 1370-1375
ResourceAccept ==
    /\ u_comm = "accepting"
    /\ u_connect = "pending"
    /\ u_connect' = "accepted"
    /\ u_client' = "open"
    /\ u_comm' = "receiving"
    /\ UNCHANGED <<u_pc, u_ret, u_registered, u_completed, u_result, u_process,
                   u_task_file, u_result_file, u_listen, u_monitor, not_uvars>>

\* lines 1365-1367 and 1406-1410: nobody connected within 10 s
ResourceAcceptTimeout ==
    /\ u_comm = "accepting"
    /\ u_connect # "pending"
    /\ u_listen' = "closed"
    /\ u_comm' = "done"
    /\ UNCHANGED <<u_pc, u_ret, u_registered, u_completed, u_result, u_process,
                   u_task_file, u_result_file, u_client, u_connect, u_monitor,
                   not_uvars>>

\* lines 1377-1410: the receive loop ends because the record is completed
\* (line 1377), because recv returns nothing after the child's exit (lines
\* 1381-1382) or because recv raises (lines 1400-1402); the with statement
\* closes the accepted socket and the finally clause the listening one
ReceiveLoopEnds(cause) ==
    /\ u_comm = "receiving"
    /\ \/ cause = "completed" /\ (u_completed \/ ~u_registered)
       \/ cause = "eof" /\ u_process = "exited"
       \/ cause = "error"
    /\ u_client' = "closed"
    /\ u_listen' = "closed"
    /\ u_comm' = "done"
    /\ UNCHANGED <<u_pc, u_ret, u_registered, u_completed, u_result, u_process,
                   u_task_file, u_result_file, u_connect, u_monitor, not_uvars>>

ResourceNext ==
    \/ \E f \in SpawnFailures : TaskCreatesResources(f)
    \/ \E ok \in BOOLEAN : SubprocessCreated(ok)
    \/ ResourceChildConnects
    \/ \E k \in {"valid", "corrupt"} : ChildWritesResult(k)
    \/ ResourceChildExits
    \/ MonitorReadFails
    \/ \E ok \in BOOLEAN : MonitorFinishes(ok)
    \/ ResourceRetrieved
    \/ ResourceAccept
    \/ ResourceAcceptTimeout
    \/ \E c \in {"completed", "eof", "error"} : ReceiveLoopEnds(c)

\* the monitor and the handler are coroutines of a loop that keeps running
ResourceFairness ==
    /\ WF_vars(\E ok \in BOOLEAN : MonitorFinishes(ok))
    /\ WF_vars(ResourceAccept)
    /\ WF_vars(ResourceAcceptTimeout)
    /\ WF_vars(\E c \in {"completed", "eof"} : ReceiveLoopEnds(c))
    /\ WF_vars(\E ok \in BOOLEAN : SubprocessCreated(ok))

(***************************************************************************)
(* Properties of the resources of a record                                 *)
(***************************************************************************)
\* the child has exited and the two coroutines of the record have ended
RecordWoundUp ==
    /\ u_process = "exited"
    /\ u_monitor \in {"done", "failed"}
    /\ u_comm = "done"

\* C31: once a child has exited and its monitor and handler have ended, the
\* temp task file and the result file are gone and the listening socket and
\* the accepted socket are closed.
C31_ExitReleasesResources ==
    RecordWoundUp =>
        /\ ~u_task_file
        /\ u_result_file = "absent"
        /\ u_listen = "closed"
        /\ u_client # "open"

\* C34: when _task returns an error string for a failed spawn, no record was
\* added and the listening socket and the temp task file made for the spawn
\* are gone.
C34_FailedSpawnReleases ==
    u_ret = "error" =>
        /\ ~u_registered
        /\ u_listen # "open"
        /\ ~u_task_file

\* C35: a record whose child has exited is completed in the end, also when
\* reading the child's output raised an error.
C35_ExitedIsCompleted ==
    (u_process = "exited") ~> u_completed

(***************************************************************************)
(* One call of task_results on a live map drawn from bounded sets:         *)
(* BaseMCPAgent._task_results (lines 1609-1680) on running_tasks and       *)
(* BuiltinToolExecutor.task_results (executor lines 374-417) on            *)
(* subagent_manager.subagents.                                             *)
(***************************************************************************)
RetrievalStates == {"absent", "running", "completed"}

\* the record of a task in one of the two states
RetrievalRecord(state) ==
    [NewTaskInfo("investigate a", 0, 1) EXCEPT
        !.completed = (state = "completed"),
        !.result = IF state = "completed" THEN "findings" ELSE NoResult,
        !.end_time = IF state = "completed" THEN 0 ELSE NoTime]

LiveMaps ==
    {[t \in {u \in 1..MaxTasks : st[u] # "absent"} |-> RetrievalRecord(st[t])] :
        st \in [1..MaxTasks -> RetrievalStates]}

\* args.get(name, default), lines 1617-1618 and executor lines 379-380
ArgOr(arg, default) == IF arg = "absent" THEN default ELSE arg = "TRUE"

\* lines 1642-1664: the tasks the text of _task_results lists
ListedByAgent(rt, include_running) ==
    {t \in DOMAIN rt : rt[t].completed}
    \cup (IF include_running THEN {t \in DOMAIN rt : ~rt[t].completed} ELSE {})

\* executor lines 385-393
ListedByExecutor(subagents, include_running) ==
    {t \in DOMAIN subagents : subagents[t].completed \/ include_running}

\* executor lines 395-401
AfterExecutorResults(subagents, clear_after_retrieval) ==
    LET tasks_to_remove ==
            {t \in DOMAIN subagents : clear_after_retrieval /\ subagents[t].completed}
    IN IF clear_after_retrieval
       THEN [t \in DOMAIN subagents \ tasks_to_remove |-> subagents[t]]
       ELSE subagents

RetrievalInit ==
    /\ q_impl \in {"agent", "executor"}
    /\ q_tasks \in LiveMaps
    /\ q_include \in {"TRUE", "FALSE", "absent"}
    /\ q_clear \in {"TRUE", "FALSE", "absent"}
    /\ q_pc = "called"
    /\ q_before = q_tasks
    /\ q_listed = {}

RetrievalIdle ==
    /\ q_impl = "agent"
    /\ q_tasks = [t \in {} |-> RetrievalRecord("running")]
    /\ q_include = "absent"
    /\ q_clear = "absent"
    /\ q_pc = "called"
    /\ q_before = q_tasks
    /\ q_listed = {}

\* the call; an empty map returns "No tasks found." (lines 1624-1625)
RetrieveResults ==
    /\ q_pc = "called"
    /\ LET include_running == ArgOr(q_include, FALSE)
           clear_after_retrieval == ArgOr(q_clear, TRUE)
       IN IF q_impl = "agent"
          THEN /\ q_listed' = ListedByAgent(q_tasks, include_running)
               /\ q_tasks' = AfterTaskResults(q_tasks, clear_after_retrieval)
          ELSE /\ q_listed' = ListedByExecutor(q_tasks, include_running)
               /\ q_tasks' = AfterExecutorResults(q_tasks, clear_after_retrieval)
    /\ q_pc' = "returned"
    /\ UNCHANGED <<q_impl, q_include, q_clear, q_before, not_qvars>>

RetrievalNext == RetrieveResults

(***************************************************************************)
(* Properties of task_results                                              *)
(***************************************************************************)
CompletedBefore == {t \in DOMAIN q_before : q_before[t].completed}
RunningBefore == {t \in DOMAIN q_before : ~q_before[t].completed}

OrphanTasks == {1, 2}

OrphanInit ==
    /\ is_subagent = FALSE
    /\ conn = [t \in OrphanTasks |-> "none"]
    /\ comm_pc = [t \in OrphanTasks |-> "accepting"]
    /\ to_parent = [t \in OrphanTasks |-> <<>>]
    /\ to_child = [t \in OrphanTasks |-> <<>>]
    /\ child_pc = [t \in OrphanTasks |-> "starting"]
    /\ child_req = [t \in OrphanTasks |-> NoRequest]
    /\ sock_timeout = [t \in OrphanTasks |-> FALSE]
    /\ handlers = {}
    /\ next_request = 1
    /\ requests = <<>>
    /\ dispatched = <<>>
    /\ sent = <<>>
    /\ returned = <<>>

OrphanSpawn(description, prompt) ==
    /\ task_counter + 1 \in OrphanTasks
    /\ TaskDecide(description, prompt)

OrphanNext ==
    \/ \E d \in Descriptions, p \in Prompts : OrphanSpawn(d, p)
    \/ TaskRegister
    \/ \E t \in OrphanTasks : ChildExit(t)
    \/ \E t \in OrphanTasks : ChildConnects(t)
    \/ \E t \in OrphanTasks, a \in ToolArgs :
          ChildCallsTool(t, "builtin:read_file", a, TRUE)
    \/ \E t \in OrphanTasks : ChildReceives(t)
    \/ \E t \in OrphanTasks : CommAccept(t)
    \/ \E t \in OrphanTasks : CommReceives(t)
    \/ \E t \in OrphanTasks : CommLoopExits(t)
    \/ SomeHandlerStarts
    \/ SomeHandlerFinishes

(***************************************************************************)
(* Properties of a response to a child that has exited                     *)
(***************************************************************************)
\* the step in which the handler h of a child that has exited ends
FinishesForExited(h) ==
    /\ h \in handlers
    /\ h.pc = "executing"
    /\ handlers' = handlers \ {h}
    /\ h.task_id \in DOMAIN process
    /\ process[h.task_id] = "exited"

\* everything of the other records is as it was
OthersUntouched(t) ==
    \A u \in OrphanTasks \ {t} :
        /\ conn'[u] = conn[u]
        /\ comm_pc'[u] = comm_pc[u]
        /\ to_parent'[u] = to_parent[u]
        /\ to_child'[u] = to_child[u]
        /\ child_req'[u] = child_req[u]
        /\ child_pc'[u] = child_pc[u]
        /\ u \in DOMAIN running_tasks =>
              (u \in DOMAIN running_tasks' /\ running_tasks'[u] = running_tasks[u])

\* C33: when the handler of a request ends after its child has exited, the
\* response reaches no caller, the step fails nothing in the parent, and the
\* record, the control socket and the pending request of every other
\* subagent are as they were.
C33_OrphanResponseDiscarded ==
    [][\A h \in handlers :
          FinishesForExited(h) =>
              /\ returned' = returned
              /\ running_tasks' = running_tasks
              /\ process' = process
              /\ OthersUntouched(h.task_id)]_vars

\* C33 witness: the child of task 1 has exited with its request executed
\* and unanswered, while the child of task 2 waits on a request of its own
\* over an open socket
C33_Witness ==
    /\ 1 \in DOMAIN process
    /\ process[1] = "exited"
    /\ \E id \in DOMAIN dispatched :
          requests[id].task_id = 1 /\ id \notin DOMAIN returned
    /\ 2 \in DOMAIN process
    /\ process[2] = "running"
    /\ child_pc[2] = "waiting"
    /\ conn[2] = "open"

(***************************************************************************)
(* Specifications.  Each one runs one part of the program; the variables   *)
(* of the other parts stay as constructed.                                 *)
(***************************************************************************)
InitTasks ==
    /\ TasksInit
    /\ CompactIdle
    /\ ChatInit
    /\ FwdIdle
    /\ KaIdle
    /\ LoopInit
    /\ ShutdownInit
    /\ DispatchIdle
    /\ RegistryInit
    /\ ReplaceIdle
    /\ FileIdle
    /\ DisplayIdle
    /\ RecordInit
    /\ InputIdle
    /\ ResourceInit
    /\ RetrievalIdle
SpecTasks == InitTasks /\ [][TasksNext]_vars

InitCompact ==
    /\ CompactInit
    /\ TasksInit
    /\ ChatInit
    /\ FwdIdle
    /\ KaIdle
    /\ LoopInit
    /\ ShutdownInit
    /\ DispatchIdle
    /\ RegistryInit
    /\ ReplaceIdle
    /\ FileIdle
    /\ DisplayIdle
    /\ RecordInit
    /\ InputIdle
    /\ ResourceInit
    /\ RetrievalIdle
SpecCompact == InitCompact /\ [][CompactNext]_vars

InitThreshold ==
    /\ ThresholdInit
    /\ TasksInit
    /\ ChatInit
    /\ FwdIdle
    /\ KaIdle
    /\ LoopInit
    /\ ShutdownInit
    /\ DispatchIdle
    /\ RegistryInit
    /\ ReplaceIdle
    /\ FileIdle
    /\ DisplayIdle
    /\ RecordInit
    /\ InputIdle
    /\ ResourceInit
    /\ RetrievalIdle
SpecThreshold == InitThreshold /\ [][ThresholdNext]_vars

InitChat ==
    /\ ChatInit
    /\ TasksInit
    /\ conv = <<>>
    /\ summary_call = NoOutcome
    /\ compacted = <<>>
    /\ cpc = "start"
    /\ compact_flag = FALSE
    /\ model_name \in ChatModels
    /\ FwdIdle
    /\ KaIdle
    /\ LoopInit
    /\ ShutdownInit
    /\ DispatchIdle
    /\ RegistryInit
    /\ ReplaceIdle
    /\ FileIdle
    /\ DisplayIdle
    /\ RecordInit
    /\ InputIdle
    /\ ResourceInit
    /\ RetrievalIdle
SpecChat == InitChat /\ [][ChatNext]_vars

InitFwd ==
    /\ FwdInit
    /\ TasksInit
    /\ CompactIdle
    /\ ChatInit
    /\ KaIdle
    /\ LoopInit
    /\ ShutdownInit
    /\ DispatchIdle
    /\ RegistryInit
    /\ ReplaceIdle
    /\ FileIdle
    /\ DisplayIdle
    /\ RecordInit
    /\ InputIdle
    /\ ResourceInit
    /\ RetrievalIdle
SpecFwd == InitFwd /\ [][FwdNext]_vars

InitKeepalive ==
    /\ KaInit
    /\ TasksInit
    /\ CompactIdle
    /\ ChatInit
    /\ FwdIdle
    /\ LoopInit
    /\ ShutdownInit
    /\ DispatchIdle
    /\ RegistryInit
    /\ ReplaceIdle
    /\ FileIdle
    /\ DisplayIdle
    /\ RecordInit
    /\ InputIdle
    /\ ResourceInit
    /\ RetrievalIdle
SpecKeepalive == InitKeepalive /\ [][KaNext]_vars

InitLoop ==
    /\ LoopInit
    /\ TasksInit
    /\ CompactIdle
    /\ ChatInit
    /\ FwdIdle
    /\ KaIdle
    /\ ShutdownInit
    /\ DispatchIdle
    /\ RegistryInit
    /\ ReplaceIdle
    /\ FileIdle
    /\ DisplayIdle
    /\ RecordInit
    /\ InputIdle
    /\ ResourceInit
    /\ RetrievalIdle
SpecLoop == InitLoop /\ [][LoopNext]_vars

InitQuit ==
    /\ ShutdownInit
    /\ TasksInit
    /\ CompactIdle
    /\ ChatInit
    /\ FwdIdle
    /\ KaIdle
    /\ LoopInit
    /\ DispatchIdle
    /\ RegistryInit
    /\ ReplaceIdle
    /\ FileIdle
    /\ DisplayIdle
    /\ RecordInit
    /\ InputIdle
    /\ ResourceInit
    /\ RetrievalIdle
SpecQuit == InitQuit /\ [][QuitNext]_vars

InitDispatch ==
    /\ DispatchInit
    /\ TasksInit
    /\ CompactIdle
    /\ ChatInit
    /\ FwdIdle
    /\ KaIdle
    /\ LoopInit
    /\ ShutdownInit
    /\ RegistryInit
    /\ ReplaceIdle
    /\ FileIdle
    /\ DisplayIdle
    /\ RecordInit
    /\ InputIdle
    /\ ResourceInit
    /\ RetrievalIdle
SpecDispatch == InitDispatch /\ [][DispatchNext]_vars

InitRegistry ==
    /\ RegistryInit
    /\ TasksInit
    /\ CompactIdle
    /\ ChatInit
    /\ FwdIdle
    /\ KaIdle
    /\ LoopInit
    /\ ShutdownInit
    /\ DispatchIdle
    /\ ReplaceIdle
    /\ FileIdle
    /\ DisplayIdle
    /\ RecordInit
    /\ InputIdle
    /\ ResourceInit
    /\ RetrievalIdle
SpecRegistry == InitRegistry /\ [][RegistryNext]_vars

InitReplace ==
    /\ ReplaceInit
    /\ TasksInit
    /\ CompactIdle
    /\ ChatInit
    /\ FwdIdle
    /\ KaIdle
    /\ LoopInit
    /\ ShutdownInit
    /\ DispatchIdle
    /\ RegistryInit
    /\ FileIdle
    /\ DisplayIdle
    /\ RecordInit
    /\ InputIdle
    /\ ResourceInit
    /\ RetrievalIdle
SpecReplace == InitReplace /\ [][ReplaceNext]_vars

InitFile ==
    /\ FileInit
    /\ ReplaceIdle
    /\ TasksInit
    /\ CompactIdle
    /\ ChatInit
    /\ FwdIdle
    /\ KaIdle
    /\ LoopInit
    /\ ShutdownInit
    /\ DispatchIdle
    /\ RegistryInit
    /\ DisplayIdle
    /\ RecordInit
    /\ InputIdle
    /\ ResourceInit
    /\ RetrievalIdle
SpecFile == InitFile /\ [][FileNext]_vars

InitDisplay ==
    /\ DisplayInit
    /\ ReplaceIdle
    /\ TasksInit
    /\ CompactIdle
    /\ ChatInit
    /\ FwdIdle
    /\ KaIdle
    /\ LoopInit
    /\ ShutdownInit
    /\ DispatchIdle
    /\ RegistryInit
    /\ FileIdle
    /\ RecordInit
    /\ InputIdle
    /\ ResourceInit
    /\ RetrievalIdle
SpecDisplay == InitDisplay /\ [][DisplayNext]_vars

InitCancel ==
    /\ TasksInit
    /\ CompactIdle
    /\ ChatInit
    /\ FwdIdle
    /\ KaArmed
    /\ LoopInit
    /\ ShutdownInit
    /\ DispatchIdle
    /\ RegistryInit
    /\ ReplaceIdle
    /\ FileIdle
    /\ DisplayIdle
    /\ RecordInit
    /\ InputIdle
    /\ ResourceInit
    /\ RetrievalIdle
SpecCancel == InitCancel /\ [][CancelNext]_vars

InitRecord ==
    /\ RecordInit
    /\ ReplaceIdle
    /\ TasksInit
    /\ CompactIdle
    /\ ChatInit
    /\ FwdIdle
    /\ KaIdle
    /\ LoopInit
    /\ ShutdownInit
    /\ DispatchIdle
    /\ RegistryInit
    /\ FileIdle
    /\ DisplayIdle
    /\ InputIdle
    /\ ResourceInit
    /\ RetrievalIdle
SpecRecord == InitRecord /\ [][RecordNext]_vars

InitInput ==
    /\ InputInit
    /\ ReplaceIdle
    /\ TasksInit
    /\ CompactIdle
    /\ ChatInit
    /\ FwdIdle
    /\ KaIdle
    /\ LoopInit
    /\ ShutdownInit
    /\ DispatchIdle
    /\ RegistryInit
    /\ FileIdle
    /\ DisplayIdle
    /\ RecordInit
    /\ ResourceInit
    /\ RetrievalIdle
SpecInput == InitInput /\ [][InputNext]_vars

InitResource ==
    /\ ResourceInit
    /\ ReplaceIdle
    /\ TasksInit
    /\ CompactIdle
    /\ ChatInit
    /\ FwdIdle
    /\ KaIdle
    /\ LoopInit
    /\ ShutdownInit
    /\ DispatchIdle
    /\ RegistryInit
    /\ FileIdle
    /\ DisplayIdle
    /\ RecordInit
    /\ InputIdle
    /\ RetrievalIdle
SpecResource == InitResource /\ [][ResourceNext]_vars

SpecResourceFair == SpecResource /\ ResourceFairness

InitRetrieval ==
    /\ RetrievalInit
    /\ ReplaceIdle
    /\ TasksInit
    /\ CompactIdle
    /\ ChatInit
    /\ FwdIdle
    /\ KaIdle
    /\ LoopInit
    /\ ShutdownInit
    /\ DispatchIdle
    /\ RegistryInit
    /\ FileIdle
    /\ DisplayIdle
    /\ RecordInit
    /\ InputIdle
    /\ ResourceInit
SpecRetrieval == InitRetrieval /\ [][RetrievalNext]_vars

InitOrphan ==
    /\ OrphanInit
    /\ TasksInit
    /\ CompactIdle
    /\ ChatInit
    /\ KaIdle
    /\ LoopInit
    /\ ShutdownInit
    /\ DispatchIdle
    /\ RegistryInit
    /\ ReplaceIdle
    /\ FileIdle
    /\ DisplayIdle
    /\ RecordInit
    /\ InputIdle
    /\ ResourceInit
    /\ RetrievalIdle
SpecOrphan == InitOrphan /\ [][OrphanNext]_vars

====
